---- MODULE Spec2Model ----
(***************************************************************************)
(* Model of the TTL index subsystem of rksdb (src/rksdb/src/schemadb):     *)
(* the typed store facade over a column-family engine (put, delete,        *)
(* multi_get), the SchemaBatch write path, put_with_ttl / get_check_ttl /  *)
(* delete_expired / cleanup_expired_with_batch_size, the background        *)
(* cleanup scheduler RksdbTtlScheduler and RksdbTtlSchedulerManager.       *)
(*                                                                         *)
(* Granularity: one step per engine call (get_cf, delete_cf, write_opt,    *)
(* iterator creation).  Work on local data between two engine calls is     *)
(* folded into the step of the engine call that precedes it.               *)
(***************************************************************************)
EXTENDS Integers, Sequences, FiniteSets, TLC

(* ------------------------------ bounds --------------------------------- *)
\* Wall clock (Unix seconds) at the start of a run.  1700000254 = 0x6553F1FE,
\* so the expiry times that calls can pass lie on both sides of a multiple of
\* 256.
StartTime == 1700000254
\* Number of clock ticks a run may take.
MaxTick == 1
\* Largest lead of an expire_at over the clock at the time of the call; the
\* smallest is -PastLead.
MaxLead == 2
PastLead == 1
\* Number of put_with_ttl calls that pass validation in one run.
MaxPuts == 2
\* Typed keys and values are the integers 1..MaxKey and 1..MaxValue.
MaxKey == 1
MaxValue == 1
\* Largest max_batch_size passed to cleanup_expired_with_batch_size.
MaxBatch == 1
\* config.cleanup_interval_seconds of the scheduler.
Interval == 1
\* Number of background tasks one scheduler spawns in a run.
MaxStarts == 2

Clients == {"c1", "c2"}
Keys == 1..MaxKey
Values == 1..MaxValue

(* ------------------------------ codec ---------------------------------- *)
\* bincode config::standard(): little endian, variable-length integers.
\* (The model's integers stay below 2^31, so the 0xFD/u64 form is not needed.)
VarintU64(u) ==
    IF u < 251 THEN <<u>>
    ELSE IF u < 65536 THEN <<251, u % 256, u \div 256>>
    ELSE <<252, u % 256, (u \div 256) % 256, (u \div 65536) % 256, u \div 16777216>>

\* Vec<u8> and String: length as a varint, then the bytes.
EncodeBytes(b) == VarintU64(Len(b)) \o b

\* KeyCodec::encode_key / ValueCodec::encode_value of impl_schema_bin_codec!
\* for an unsigned integer key or value type.
EncodeKey(k) == VarintU64(k)
EncodeValue(v) == VarintU64(v)

\* ValueCodec::decode_value: the inverse of the varint forms; <<>> is a
\* decode error.
DecodeValue(b) ==
    IF Len(b) = 1 /\ b[1] < 251 THEN <<b[1]>>
    ELSE IF Len(b) = 3 /\ b[1] = 251 THEN <<b[2] + 256 * b[3]>>
    ELSE IF Len(b) = 5 /\ b[1] = 252
         THEN <<b[2] + 256 * b[3] + 65536 * b[4] + 16777216 * b[5]>>
    ELSE <<>>

\* derive(Encode) of TtlExpirationKey: the fields in declaration order.
EncodeExpKey(k) ==
    VarintU64(k.expire_timestamp) \o EncodeBytes(k.schema_name)
        \o EncodeBytes(k.original_key)

\* The engine's default comparator: bytewise lexicographic order.
RECURSIVE BytesLess(_, _)
BytesLess(a, b) ==
    IF b = <<>> THEN FALSE
    ELSE IF a = <<>> THEN TRUE
    ELSE IF a[1] # b[1] THEN a[1] < b[1]
    ELSE BytesLess(Tail(a), Tail(b))

(* ------------------------------ schemas -------------------------------- *)
Schemas == {"A", "B"}
\* std::any::type_name::<S>() as bytes.
TypeName(s) == IF s = "A" THEN <<65>> ELSE <<65, 66>>
\* S::COLUMN_FAMILY_NAME
ColumnFamilyName(s) == IF s = "A" THEN "cf_a" ELSE "cf_b"
TtlExpirationCF == "ttl_expiration"
TtlSingleCF == "ttl_single"
\* create_test_db: the schema's column families plus get_ttl_column_families()
OpenedCFs == {ColumnFamilyName(s) : s \in Schemas} \cup {TtlExpirationCF, TtlSingleCF}

TtlExpirationKey(ts, s, kb) ==
    [expire_timestamp |-> ts, schema_name |-> TypeName(s), original_key |-> kb]
TtlExpirationValue(s) == [cf_name |-> ColumnFamilyName(s)]
\* (mutant) the TtlSingle key leaves the schema out.
TtlSingleKeyBytesOnly(s, kb) == [schema_name |-> <<>>, original_key |-> kb]
TtlSingleKey(s, kb) == [schema_name |-> TypeName(s), original_key |-> kb]
TtlSingleValue(ts, s) == [expire_timestamp |-> ts, cf_name |-> ColumnFamilyName(s)]

(* ------------------------------ engine --------------------------------- *)
\* A column family is a finite map from keys to values.  The primary column
\* families hold encoded key and value bytes; the two index column families
\* hold the typed index records, which stand for their bincode bytes (bincode
\* is injective), and are ordered by EncodeExpKey when iterated.
CfPut(f, k, v) == [x \in (DOMAIN f) \cup {k} |-> IF x = k THEN v ELSE f[x]]
CfDelete(f, k) == [x \in (DOMAIN f) \ {k} |-> f[x]]
\* rocksdb get_cf: Option as a sequence of length 0 or 1.
GetCf(d, cf, k) == IF k \in DOMAIN d[cf] THEN <<d[cf][k]>> ELSE <<>>
DeleteCf(d, cf, k) == [d EXCEPT ![cf] = CfDelete(@, k)]

\* WriteOp
OpValue(k, v) == [type |-> "Value", key |-> k, value |-> v]
OpDeletion(k) == [type |-> "Deletion", key |-> k, value |-> <<>>]

\* SchemaBatch: column family name -> ops in insertion order.
EmptyBatch == <<>>
\* (mutant) an operation is put in front of the operations of its column
\* family.
BatchAddFront(rows, cf, op) ==
    [x \in (DOMAIN rows) \cup {cf} |->
        IF x = cf THEN (IF cf \in DOMAIN rows THEN <<op>> \o rows[cf] ELSE <<op>>)
        ELSE rows[x]]
BatchAdd(rows, cf, op) ==
    [x \in (DOMAIN rows) \cup {cf} |->
        IF x = cf THEN (IF cf \in DOMAIN rows THEN Append(rows[cf], op) ELSE <<op>>)
        ELSE rows[x]]

RECURSIVE ApplyOps(_, _)
ApplyOps(f, ops) ==
    IF ops = <<>> THEN f
    ELSE ApplyOps(IF Head(ops).type = "Value"
                  THEN CfPut(f, Head(ops).key, Head(ops).value)
                  ELSE CfDelete(f, Head(ops).key),
                  Tail(ops))

\* (mutant) a column family that is not open is skipped instead of failing
\* the write.
WriteSchemasResolvesAny(d, rows) == TRUE
\* RksDB::write_schemas: every column family of the batch is resolved first
\* (get_cf_handle fails for one that is not open, before anything is written),
\* then the whole rocksdb::WriteBatch is committed by one write_opt call.
WriteSchemasResolves(d, rows) == \A cf \in DOMAIN rows : cf \in DOMAIN d
\* (mutant) the ops of the TtlSingle column family are dropped from the commit.
WriteSchemasWithoutSingle(d, rows) ==
    [cf \in DOMAIN d |->
        IF cf \in DOMAIN rows /\ cf # TtlSingleCF THEN ApplyOps(d[cf], rows[cf])
        ELSE d[cf]]
WriteSchemas(d, rows) ==
    [cf \in DOMAIN d |->
        IF cf \in DOMAIN rows THEN ApplyOps(d[cf], rows[cf]) ELSE d[cf]]

\* SchemaIterator over the expiration index after seek_to_first: the entries
\* present when the iterator is created, in the engine's key order.
RECURSIVE SortByEncoding(_, _)
SortByEncoding(f, S) ==
    IF S = {} THEN <<>>
    ELSE LET m == CHOOSE x \in S :
                    \A y \in S \ {x} : BytesLess(EncodeExpKey(x), EncodeExpKey(y))
         IN  <<[key |-> m, value |-> f[m]]>> \o SortByEncoding(f, S \ {m})
IterExpiration(d) == SortByEncoding(d[TtlExpirationCF], DOMAIN d[TtlExpirationCF])

(* ------------------------------ state ---------------------------------- *)
VARIABLES
    now,      \* current_timestamp(): Unix seconds
    puts,     \* number of put_with_ttl calls that passed validation
    db,       \* the engine: column family name -> map
    cl,       \* per caller: the call in progress and the last result
    lastPut,  \* history: per (schema, key), the arguments of the last committed
              \* put_with_ttl if no entry of that key was changed since
    sched,    \* one RksdbTtlScheduler, the call its owner is in, and the
              \* background tasks it has spawned
    mgr       \* one RksdbTtlSchedulerManager: its schedulers, each with its
              \* own store, and the call its owner is in

vars == <<now, puts, db, cl, lastPut, sched, mgr>>

None == <<>>
Some(x) == <<x>>
ResOk == [tag |-> "Ok", val |-> 0]
ResErr == [tag |-> "Err", val |-> 0]
ResNone == [tag |-> "None", val |-> 0]
ResSome(v) == [tag |-> "Some", val |-> v]
\* Ok((total, expired))
ResStats(total, expired) == [tag |-> "Stats", val |-> <<total, expired>>]
\* Ok(Vec<Option<Value>>)
ResVec(xs) == [tag |-> "Vec", val |-> xs]

\* A caller that has made no call yet.  Besides the locals of the call in
\* progress, `expired` records that get_check_ttl took its expired branch and
\* `pre` holds the store as it was when a cleanup pass started.
Fresh ==
    [pc |-> "idle", op |-> "none", schema |-> "A", key |-> 0, value |-> 0,
     expire_at |-> 0, ctime |-> 0, ttl |-> None, rows |-> EmptyBatch,
     snap |-> <<>>, buf |-> <<>>, di |-> 0, maxb |-> 0, last |-> FALSE,
     expired |-> FALSE, pre |-> <<>>, keys |-> <<>>,
     res |-> [tag |-> "-", val |-> 0]]

\* RksdbTtlScheduler::new with config.enable_cleanup = enable.  shutdown_tx
\* is None or the index of the task that holds the receiver; `pc` and `ret`
\* are the owner's position in stop() and what its last call did.
SchedNew(enable) ==
    [enable |-> enable, is_running |-> FALSE, shutdown_tx |-> None,
     tasks |-> <<>>, pc |-> "idle", ret |-> "-", trig |-> 0,
     max_cleanup_batch_size |-> MaxBatch]

\* RksdbTtlSchedulerManager::new.  `pc`, `i` and `ret` are the owner's
\* position in stop_all(), the member its loop is at, and what its last call
\* did.
ManagerNew == [schedulers |-> <<>>, pc |-> "idle", i |-> 0, ret |-> "-"]

Init ==
    /\ now = StartTime
    /\ puts = 0
    /\ db = [cf \in OpenedCFs |-> <<>>]
    /\ cl = [c \in Clients |-> Fresh]
    /\ lastPut = [s \in Schemas |-> [k \in Keys |-> None]]
    /\ sched = SchedNew(TRUE)
    /\ mgr = ManagerNew

\* The entries the store holds for one (schema, key).
ExpKeysOf(d, s, k) ==
    {x \in DOMAIN d[TtlExpirationCF] :
        x.schema_name = TypeName(s) /\ x.original_key = EncodeKey(k)}
KeyEntries(d, s, k) ==
    <<GetCf(d, ColumnFamilyName(s), EncodeKey(k)),
      GetCf(d, TtlSingleCF, TtlSingleKey(s, EncodeKey(k))),
      {<<x, d[TtlExpirationCF][x]>> : x \in ExpKeysOf(d, s, k)}>>
\* lastPut after a step from d1 to d2 that is not a put_with_ttl commit.
Untouched(lp, d1, d2) ==
    [s \in Schemas |-> [k \in Keys |->
        IF KeyEntries(d1, s, k) = KeyEntries(d2, s, k) THEN lp[s][k] ELSE None]]

Tick ==
    /\ now < StartTime + MaxTick
    /\ now' = now + 1
    /\ UNCHANGED <<mgr, sched, puts, db, cl, lastPut>>

(* ----------------------------- put_with_ttl ---------------------------- *)
PutWithTtlRows(s, k, v, e) ==
    BatchAdd(
      BatchAdd(
        BatchAdd(EmptyBatch, ColumnFamilyName(s), OpValue(EncodeKey(k), EncodeValue(v))),
        TtlExpirationCF,
        OpValue(TtlExpirationKey(e, s, EncodeKey(k)), TtlExpirationValue(s))),
      TtlSingleCF,
      OpValue(TtlSingleKey(s, EncodeKey(k)), TtlSingleValue(e, s)))

\* (mutant) the validation lets expire_at = now through.
TtlRejectedStrict(e, t) == e < t
\* The validation of expire_at against the clock.
TtlRejected(e, t) == e <= t

\* put_with_ttl up to the call of write_schemas (at most `budget` calls of a
\* run pass the validation).
PutWithTtl(c, s, k, v, e, budget) ==
    /\ cl[c].pc = "idle"
    /\ TtlRejected(e, now) \/ puts < budget
    /\ LET call == [Fresh EXCEPT !.op = "put_with_ttl", !.schema = s, !.key = k,
                                 !.value = v, !.expire_at = e]
       IN  cl' = [cl EXCEPT ![c] =
                IF TtlRejected(e, now)
                THEN [call EXCEPT !.value = 0, !.res = ResErr]
                ELSE [call EXCEPT !.pc = "put_write",
                                  !.rows = PutWithTtlRows(s, k, v, e)]]
    /\ puts' = IF TtlRejected(e, now) THEN puts ELSE puts + 1
    /\ UNCHANGED <<mgr, sched, now, db, lastPut>>

\* The write_schemas call of put_with_ttl: commits the batch or fails.
PutWithTtlCommit(c) ==
    /\ cl[c].pc = "put_write"
    /\ \E ok \in BOOLEAN :
        IF ok /\ WriteSchemasResolves(db, cl[c].rows)
        THEN /\ db' = WriteSchemas(db, cl[c].rows)
             /\ cl' = [cl EXCEPT ![c] = [@ EXCEPT !.pc = "idle", !.rows = EmptyBatch,
                                                  !.value = 0, !.expire_at = 0,
                                                  !.res = ResOk]]
             /\ lastPut' = [Untouched(lastPut, db, db') EXCEPT
                              ![cl[c].schema][cl[c].key] =
                                  Some([value |-> cl[c].value,
                                        expire_at |-> cl[c].expire_at])]
        ELSE /\ cl' = [cl EXCEPT ![c] = [@ EXCEPT !.pc = "idle", !.rows = EmptyBatch,
                                                  !.value = 0, !.expire_at = 0,
                                                  !.res = ResErr]]
             /\ UNCHANGED <<db, lastPut>>
    /\ UNCHANGED <<mgr, sched, now, puts>>

(* ----------------------------- delete_expired -------------------------- *)
\* (mutant) the batch without the deletion of the primary record.
DeleteExpiredRowsWithoutPrimary(s, k, ttl) ==
    BatchAdd(
      BatchAdd(EmptyBatch, TtlExpirationCF,
               OpDeletion(TtlExpirationKey(ttl.expire_timestamp, s, EncodeKey(k)))),
      TtlSingleCF,
      OpDeletion(TtlSingleKey(s, EncodeKey(k))))
DeleteExpiredRows(s, k, ttl) ==
    BatchAdd(
      BatchAdd(
        BatchAdd(EmptyBatch, ColumnFamilyName(s), OpDeletion(EncodeKey(k))),
        TtlExpirationCF,
        OpDeletion(TtlExpirationKey(ttl.expire_timestamp, s, EncodeKey(k)))),
      TtlSingleCF,
      OpDeletion(TtlSingleKey(s, EncodeKey(k))))

\* What get_check_ttl returns when its delete_expired call returned Ok.
AfterDelete(call) == IF call.op = "get_check_ttl" THEN ResNone ELSE ResOk

\* delete_expired up to the call of write_schemas: the lookup of the
\* TtlSingle record.
DeleteExpiredLookedUp(call, d) ==
    LET ttl == GetCf(d, TtlSingleCF, TtlSingleKey(call.schema, EncodeKey(call.key)))
    IN  IF ttl # None
        THEN [call EXCEPT !.pc = "de_write",
                          !.rows = DeleteExpiredRows(call.schema, call.key, ttl[1])]
        ELSE [call EXCEPT !.pc = "idle", !.ttl = None, !.ctime = 0,
                          !.res = AfterDelete(call)]

DeleteExpired(c, s, k) ==
    /\ cl[c].pc = "idle"
    /\ cl' = [cl EXCEPT ![c] =
            DeleteExpiredLookedUp(
                [Fresh EXCEPT !.op = "delete_expired", !.schema = s, !.key = k], db)]
    /\ UNCHANGED <<mgr, sched, now, puts, db, lastPut>>

\* The same lookup when delete_expired is called by get_check_ttl.
DeleteExpiredLookup(c) ==
    /\ cl[c].pc = "de_lookup"
    /\ cl' = [cl EXCEPT ![c] = DeleteExpiredLookedUp(cl[c], db)]
    /\ UNCHANGED <<mgr, sched, now, puts, db, lastPut>>

DeleteExpiredCommit(c) ==
    /\ cl[c].pc = "de_write"
    /\ \E ok \in BOOLEAN :
        IF ok /\ WriteSchemasResolves(db, cl[c].rows)
        THEN /\ db' = WriteSchemas(db, cl[c].rows)
             /\ cl' = [cl EXCEPT ![c] = [@ EXCEPT !.pc = "idle", !.rows = EmptyBatch,
                                                  !.ttl = None, !.ctime = 0,
                                                  !.res = AfterDelete(cl[c])]]
             /\ lastPut' = Untouched(lastPut, db, db')
        ELSE /\ cl' = [cl EXCEPT ![c] = [@ EXCEPT !.pc = "idle", !.rows = EmptyBatch,
                                                  !.ttl = None, !.ctime = 0,
                                                  !.res = ResErr]]
             /\ UNCHANGED <<db, lastPut>>
    /\ UNCHANGED <<mgr, sched, now, puts>>

(* ----------------------------- get_check_ttl --------------------------- *)
\* (mutant) a record that expires exactly now is not yet treated as expired.
TtlExpiredStrict(ttl, t) == ttl.expire_timestamp < t
\* (mutant) a record is treated as expired one second early.
TtlExpiredEarly(ttl, t) == ttl.expire_timestamp <= t + 1
\* The expiry test of get_check_ttl.
TtlExpired(ttl, t) == ttl.expire_timestamp <= t

\* The lookup of the TtlSingle record and the comparison with the clock.
GetCheckTtl(c, s, k) ==
    /\ cl[c].pc = "idle"
    /\ LET ttl == GetCf(db, TtlSingleCF, TtlSingleKey(s, EncodeKey(k)))
           call == [Fresh EXCEPT !.op = "get_check_ttl", !.schema = s, !.key = k,
                                 !.ttl = ttl, !.ctime = now]
       IN  cl' = [cl EXCEPT ![c] =
                IF ttl # None /\ TtlExpired(ttl[1], now)
                THEN [call EXCEPT !.pc = "de_lookup", !.expired = TRUE]
                ELSE [call EXCEPT !.pc = "gct_get"]]
    /\ UNCHANGED <<mgr, sched, now, puts, db, lastPut>>

\* (mutant) get finds nothing.
GetFindsNothing(d, s, k) == ResNone
\* RksDB::get: the primary record, decoded.
Get(d, s, k) ==
    LET raw == GetCf(d, ColumnFamilyName(s), EncodeKey(k))
    IN  IF raw = None THEN ResNone
        ELSE IF DecodeValue(raw[1]) = <<>> THEN ResErr
        ELSE ResSome(DecodeValue(raw[1])[1])

GetCheckTtlGet(c) ==
    /\ cl[c].pc = "gct_get"
    /\ cl' = [cl EXCEPT ![c] = [@ EXCEPT !.pc = "idle", !.ttl = None, !.ctime = 0,
                                         !.res = Get(db, cl[c].schema, cl[c].key)]]
    /\ UNCHANGED <<mgr, sched, now, puts, db, lastPut>>

(* ------------------- cleanup_expired_with_batch_size ------------------- *)
\* The scan loop up to the next flush: entries are taken from the iterator
\* until one has expire_timestamp > current_time (break), the iterator ends,
\* or max_batch_size entries are collected.  `last` tells that the loop has
\* ended, so that the flush that follows is the one after the loop.
RECURSIVE Scan(_, _, _, _)
Scan(snap, buf, t, maxb) ==
    IF snap = <<>> THEN [snap |-> <<>>, buf |-> buf, last |-> TRUE]
    ELSE IF Head(snap).key.expire_timestamp > t
         THEN [snap |-> <<>>, buf |-> buf, last |-> TRUE]
    ELSE IF Len(buf) + 1 >= maxb
         THEN [snap |-> Tail(snap), buf |-> Append(buf, Head(snap)), last |-> FALSE]
    ELSE Scan(Tail(snap), Append(buf, Head(snap)), t, maxb)

\* (mutant) the entry that follows a full batch is skipped.
ScannedSkipsOne(call, sc) ==
    IF sc.buf # <<>>
    THEN [call EXCEPT !.pc = "clean_del",
                      !.snap = IF sc.snap = <<>> THEN <<>> ELSE Tail(sc.snap),
                      !.buf = sc.buf, !.di = 1, !.last = sc.last]
    ELSE [call EXCEPT !.pc = "idle", !.snap = <<>>, !.buf = <<>>, !.di = 0,
                      !.last = FALSE, !.ctime = 0, !.maxb = 0, !.pre = <<>>, !.res = ResOk]
\* The caller after a scan: in batch_delete_expired when entries were
\* collected, returned Ok otherwise.
Scanned(call, sc) ==
    IF sc.buf # <<>>
    THEN [call EXCEPT !.pc = "clean_del", !.snap = sc.snap, !.buf = sc.buf,
                      !.di = 1, !.last = sc.last]
    ELSE [call EXCEPT !.pc = "idle", !.snap = <<>>, !.buf = <<>>, !.di = 0,
                      !.last = FALSE, !.ctime = 0, !.maxb = 0, !.pre = <<>>, !.res = ResOk]

\* (mutant) a max_batch_size of 0 is let through.
BatchSizeAccepted(maxb) == FALSE
\* The validation of max_batch_size.
BatchSizeRejected(maxb) == maxb = 0

\* cleanup_expired_with_batch_size(t, maxb) on store d up to the first flush:
\* the caller after it.
CleanupExpiredCall(d, t, maxb) ==
    LET call == [Fresh EXCEPT !.op = "cleanup_expired", !.ctime = t,
                              !.maxb = maxb, !.pre = d]
    IN  IF BatchSizeRejected(maxb)
        THEN [call EXCEPT !.ctime = 0, !.pre = <<>>, !.res = ResErr]
        ELSE Scanned(call, Scan(IterExpiration(d), <<>>, t, maxb))

CleanupExpired(c, maxb) ==
    /\ cl[c].pc = "idle"
    /\ cl' = [cl EXCEPT ![c] = CleanupExpiredCall(db, now, maxb)]
    /\ UNCHANGED <<mgr, sched, now, puts, db, lastPut>>

\* delete_raw_key of the next collected entry, inside batch_delete_expired:
\* an engine delete of its own, before the batch is written.
DeleteRawKey(c) ==
    /\ cl[c].pc = "clean_del"
    /\ LET e == cl[c].buf[cl[c].di]
       IN  \E ok \in BOOLEAN :
            IF ok /\ e.value.cf_name \in DOMAIN db
            THEN /\ db' = DeleteCf(db, e.value.cf_name, e.key.original_key)
                 /\ cl' = [cl EXCEPT ![c] =
                        IF cl[c].di = Len(cl[c].buf)
                        THEN [@ EXCEPT !.pc = "clean_write", !.di = 0]
                        ELSE [@ EXCEPT !.di = @ + 1]]
                 /\ lastPut' = Untouched(lastPut, db, db')
            ELSE /\ cl' = [cl EXCEPT ![c] =
                        [@ EXCEPT !.pc = "idle", !.snap = <<>>, !.buf = <<>>,
                                  !.di = 0, !.last = FALSE, !.ctime = 0, !.maxb = 0, !.pre = <<>>, !.res = ResErr]]
                 /\ UNCHANGED <<db, lastPut>>
    /\ UNCHANGED <<mgr, sched, now, puts>>

\* The batch of batch_delete_expired: both index entries of every collected
\* entry.
RECURSIVE BatchDeleteRows(_, _)
BatchDeleteRows(rows, buf) ==
    IF buf = <<>> THEN rows
    ELSE BatchDeleteRows(
           BatchAdd(
             BatchAdd(rows, TtlExpirationCF, OpDeletion(Head(buf).key)),
             TtlSingleCF,
             OpDeletion([schema_name |-> Head(buf).key.schema_name,
                         original_key |-> Head(buf).key.original_key])),
           Tail(buf))

\* write_schemas at the end of batch_delete_expired, then the loop goes on.
BatchDeleteCommit(c) ==
    /\ cl[c].pc = "clean_write"
    /\ \E ok \in BOOLEAN :
        LET rows == BatchDeleteRows(EmptyBatch, cl[c].buf)
        IN  IF ok /\ WriteSchemasResolves(db, rows)
            THEN /\ db' = WriteSchemas(db, rows)
                 /\ cl' = [cl EXCEPT ![c] =
                        IF cl[c].last
                        THEN [@ EXCEPT !.pc = "idle", !.snap = <<>>, !.buf = <<>>,
                                       !.last = FALSE, !.ctime = 0, !.maxb = 0, !.pre = <<>>, !.res = ResOk]
                        ELSE Scanned(cl[c],
                                     Scan(cl[c].snap, <<>>, cl[c].ctime, cl[c].maxb))]
                 /\ lastPut' = Untouched(lastPut, db, db')
            ELSE /\ cl' = [cl EXCEPT ![c] =
                        [@ EXCEPT !.pc = "idle", !.snap = <<>>, !.buf = <<>>,
                                  !.last = FALSE, !.ctime = 0, !.maxb = 0, !.pre = <<>>, !.res = ResErr]]
                 /\ UNCHANGED <<db, lastPut>>
    /\ UNCHANGED <<mgr, sched, now, puts>>

(* ------------------- put, delete, write_schemas, multi_get ------------- *)
\* write_schemas as a call: Err when a column family of the batch is not open
\* or the engine write fails, else the whole batch committed.
WriteSchemasOutcome(d, rows, ok) ==
    IF ok /\ WriteSchemasResolves(d, rows)
    THEN [db |-> WriteSchemas(d, rows), res |-> ResOk]
    ELSE [db |-> d, res |-> ResErr]

\* A call that consists of one write_schemas call with batch `rows`.
WriteCall(c, call, rows) ==
    /\ cl[c].pc = "idle"
    /\ \E ok \in BOOLEAN :
        LET out == WriteSchemasOutcome(db, rows, ok)
        IN  /\ db' = out.db
            /\ cl' = [cl EXCEPT ![c] = [call EXCEPT !.res = out.res]]
            /\ lastPut' = Untouched(lastPut, db, db')
    /\ UNCHANGED <<mgr, sched, now, puts>>

\* RksDB::put: a batch with the one primary record.
Put(c, s, k, v) ==
    WriteCall(c, [Fresh EXCEPT !.op = "put", !.schema = s, !.key = k],
              BatchAdd(EmptyBatch, ColumnFamilyName(s),
                       OpValue(EncodeKey(k), EncodeValue(v))))

\* RksDB::delete: a batch with the one deletion of the primary record.
Delete(c, s, k) ==
    WriteCall(c, [Fresh EXCEPT !.op = "delete", !.schema = s, !.key = k],
              BatchAdd(EmptyBatch, ColumnFamilyName(s), OpDeletion(EncodeKey(k))))

\* The bytes of the value 251 of a schema on the same column family whose
\* value type is u8 (one raw byte): not a complete varint for the u64 codec.
ForeignValue == <<251>>
\* The operations callers put into a SchemaBatch, with their column family:
\* typed puts and deletes of the two schemas, a put of a schema with another
\* value type, and a put of a schema whose column family was not opened.
BatchOps ==
    {[cf |-> ColumnFamilyName("A"), op |-> OpValue(EncodeKey(k), EncodeValue(v))] :
        k \in Keys, v \in Values}
    \cup {[cf |-> ColumnFamilyName("A"), op |-> OpDeletion(EncodeKey(k))] : k \in Keys}
    \cup {[cf |-> ColumnFamilyName("A"), op |-> OpValue(EncodeKey(k), ForeignValue)] :
        k \in Keys}
    \cup {[cf |-> ColumnFamilyName("B"), op |-> OpValue(EncodeKey(1), EncodeValue(v))] :
        v \in Values}
    \cup {[cf |-> "cf_x", op |-> OpValue(EncodeKey(1), EncodeValue(1))]}
\* SchemaBatch::put / SchemaBatch::delete called for each of a sequence of
\* operations.
RECURSIVE BatchOf(_, _)
BatchOf(rows, ops) ==
    IF ops = <<>> THEN rows
    ELSE BatchOf(BatchAdd(rows, Head(ops).cf, Head(ops).op), Tail(ops))
\* Batches of one operation and of two.
OpSeqs == {<<o>> : o \in BatchOps} \cup {<<o, p>> : o, p \in BatchOps}

\* RksDB::write_schemas called with a batch the caller has filled.
WriteSchemasCall(c, ops) ==
    WriteCall(c, [Fresh EXCEPT !.op = "write_schemas", !.buf = ops],
              BatchOf(EmptyBatch, ops))

\* rocksdb multi_get_cf: per key the stored bytes, or an error of the engine
\* for the keys at the indices in `bad`.
MultiGetCf(d, cf, keys, bad) ==
    [i \in 1..Len(keys) |->
        IF i \in bad THEN [err |-> TRUE, raw |-> None]
        ELSE [err |-> FALSE, raw |-> GetCf(d, cf, EncodeKey(keys[i]))]]
\* The loop of multi_get over the results: an engine error pushes None, a
\* stored value is decoded (a decode error returns from the call) and pushed,
\* a missing key pushes nothing.
RECURSIVE MultiGetCollect(_, _)
MultiGetCollect(results, acc) ==
    IF results = <<>> THEN ResVec(acc)
    ELSE LET r == Head(results)
         IN  IF r.err THEN MultiGetCollect(Tail(results), Append(acc, None))
             ELSE IF r.raw = None THEN MultiGetCollect(Tail(results), acc)
             ELSE IF DecodeValue(r.raw[1]) = <<>> THEN ResErr
             ELSE MultiGetCollect(Tail(results),
                                  Append(acc, Some(DecodeValue(r.raw[1])[1])))

MultiKeys == 1..(MaxKey + 1)
\* Key lists of one key and of two.
KeySeqs == {<<k>> : k \in MultiKeys} \cup {<<k, m>> : k, m \in MultiKeys}

\* RksDB::multi_get
MultiGet(c, s, keys) ==
    /\ cl[c].pc = "idle"
    /\ \E bad \in SUBSET (1..Len(keys)) :
        cl' = [cl EXCEPT ![c] =
                [Fresh EXCEPT !.op = "multi_get", !.schema = s, !.keys = keys,
                    !.res = IF ColumnFamilyName(s) \in DOMAIN db
                            THEN MultiGetCollect(
                                    MultiGetCf(db, ColumnFamilyName(s), keys, bad), <<>>)
                            ELSE ResErr]]
    /\ UNCHANGED <<mgr, sched, now, puts, db, lastPut>>

(* ----------------------------- get_ttl_stats --------------------------- *)
\* (mutant) an entry that expires exactly now is not counted as expired.
StatsExpiredStrict(ts, t) == ts < t
\* The classification of an entry by get_ttl_stats.
StatsExpired(ts, t) == ts <= t

\* The loop of get_ttl_stats over the iterator, with its two counters.
RECURSIVE CountStats(_, _, _, _)
CountStats(it, t, total_count, expired_count) ==
    IF it = <<>> THEN ResStats(total_count, expired_count)
    ELSE CountStats(Tail(it), t, total_count + 1,
                    IF StatsExpired(Head(it).key.expire_timestamp, t)
                    THEN expired_count + 1 ELSE expired_count)

\* get_ttl_stats: the clock, then one pass over the iterator of the
\* expiration index (creating it or reading from it may fail).
GetTtlStats(c) ==
    /\ cl[c].pc = "idle"
    /\ \E ok \in BOOLEAN :
        cl' = [cl EXCEPT ![c] =
                [Fresh EXCEPT !.op = "get_ttl_stats",
                              !.res = IF ok THEN CountStats(IterExpiration(db), now, 0, 0)
                                      ELSE ResErr]]
    /\ UNCHANGED <<mgr, sched, now, puts, db, lastPut>>

(* --------------------------- RksdbTtlScheduler ------------------------- *)
\* cleanup_expired(current_time): the batch size the background task and
\* trigger_cleanup run with.
DefaultBatchSize == 1000

\* A task just spawned: it holds the receiver of a channel with no message
\* whose sender is alive.  `ready` tells that recv was ready when the task
\* entered its select!, so that the sleep branch cannot be the one taken.
TaskNew == [pc |-> "init", msgs |-> 0, open |-> TRUE, next |-> 0, ready |-> FALSE]
\* shutdown_rx.recv() of task i completes: a message is buffered or every
\* sender is gone.
Pending(sc, i) == sc.tasks[i].msgs > 0 \/ ~ sc.tasks[i].open
\* The sender stored in shutdown_tx, if any, is dropped.
DropSender(sc) ==
    IF sc.shutdown_tx = None THEN sc.tasks
    ELSE [sc.tasks EXCEPT ![sc.shutdown_tx[1]].open = FALSE]
\* Task i is alive.
Alive(sc, i) == sc.tasks[i].pc # "done"

\* (mutant) start() does not look at config.enable_cleanup.
StartEnabledAlways(sc) == TRUE
\* start() goes on when config.enable_cleanup is set.
StartEnabled(sc) == sc.enable
\* (mutant) start() does not look at the running flag.
StartAlreadyRunningNever(sc) == FALSE
\* start() returns early when the running flag is set.
StartAlreadyRunning(sc) == sc.is_running

\* start() spawns a task.
Spawns(sc) == StartEnabled(sc) /\ ~ StartAlreadyRunning(sc)
\* (mutant) start() spawns the task without storing the running flag.
StartedFlagClear(sc) ==
    IF ~ StartEnabled(sc) THEN [sc EXCEPT !.ret = "disabled"]
    ELSE IF StartAlreadyRunning(sc) THEN [sc EXCEPT !.ret = "already_running"]
    ELSE [sc EXCEPT !.tasks = Append(DropSender(sc), TaskNew),
                    !.shutdown_tx = Some(Len(sc.tasks) + 1),
                    !.ret = "started"]
\* The scheduler after start().
Started(sc) ==
    IF ~ StartEnabled(sc) THEN [sc EXCEPT !.ret = "disabled"]
    ELSE IF StartAlreadyRunning(sc) THEN [sc EXCEPT !.ret = "already_running"]
    ELSE [sc EXCEPT !.tasks = Append(DropSender(sc), TaskNew),
                    !.shutdown_tx = Some(Len(sc.tasks) + 1),
                    !.is_running = TRUE,
                    !.ret = "started"]

\* start(): one step, it awaits nothing.
Start ==
    /\ sched.pc = "idle"
    /\ Spawns(sched) => Len(sched.tasks) < MaxStarts
    /\ sched' = Started(sched)
    /\ UNCHANGED <<mgr, now, puts, db, cl, lastPut>>

\* The scheduler after the load of the running flag in stop().
StopLoaded(sc) ==
    IF ~ sc.is_running THEN [sc EXCEPT !.ret = "not_running"]
    ELSE [sc EXCEPT !.pc = "stop_send", !.ret = "-"]

\* stop(): the load of the running flag.
Stop ==
    /\ sched.pc = "idle"
    /\ sched' = StopLoaded(sched)
    /\ UNCHANGED <<mgr, now, puts, db, cl, lastPut>>

\* The scheduler after shutdown_tx.take() and the send on it (an error of
\* send, when the receiver is gone, is only logged); the sender is dropped
\* after it.
StopSent(sc) ==
    [sc EXCEPT
        !.pc = "stop_wait",
        !.shutdown_tx = None,
        !.tasks = IF sc.shutdown_tx = None THEN @
                  ELSE LET i == sc.shutdown_tx[1]
                       IN  [@ EXCEPT ![i].open = FALSE,
                                     ![i].msgs = IF Alive(sc, i) THEN 1 ELSE @]]

\* stop(): the shutdown signal.
StopSend ==
    /\ sched.pc = "stop_send"
    /\ sched' = StopSent(sched)
    /\ UNCHANGED <<mgr, now, puts, db, cl, lastPut>>

\* (mutant) the wait loop of stop() ends without looking at the running flag.
StopWaitOverAlways(sc) == TRUE
\* The wait loop of stop() ends because the running flag is clear.
StopWaitOver(sc) == ~ sc.is_running

\* The scheduler after stop() has returned from its wait loop with the
\* running flag clear.
StopReturned(sc) == [sc EXCEPT !.pc = "idle", !.ret = "stopped"]

\* stop(): the wait loop finds the running flag clear and stop() returns.
StopReturn ==
    /\ sched.pc = "stop_wait"
    /\ StopWaitOver(sched)
    /\ sched' = StopReturned(sched)
    /\ UNCHANGED <<mgr, now, puts, db, cl, lastPut>>

\* (mutant) stop() aborts the tasks when its wait times out.
StopTimedOutAborts(sc) ==
    [sc EXCEPT !.pc = "idle", !.ret = "timeout", !.is_running = FALSE,
               !.tasks = [i \in DOMAIN @ |-> [@[i] EXCEPT !.pc = "done"]]]
\* The scheduler after the wait loop of stop() has timed out: a warning is
\* logged and Ok returned.
StopTimedOut(sc) == [sc EXCEPT !.pc = "idle", !.ret = "timeout"]

\* stop(): the 10 seconds of the wait loop have passed with the running flag
\* still set, and stop() returns.  (The 100 ms sleeps of the loop that end
\* with the flag still set change nothing.)
StopTimeout ==
    /\ sched.pc = "stop_wait"
    /\ sched.is_running
    /\ sched' = StopTimedOut(sched)
    /\ UNCHANGED <<mgr, now, puts, db, cl, lastPut>>

\* Task i enters its select!.
EnterSelect(sc, i, next) ==
    [sc EXCEPT !.tasks[i].pc = "select", !.tasks[i].next = next,
               !.tasks[i].ready = Pending(sc, i)]

\* cleanup_task up to the loop: the first due time.
TaskInit(i) ==
    /\ sched.tasks[i].pc = "init"
    /\ sched' = EnterSelect(sched, i, now + Interval)
    /\ UNCHANGED <<mgr, now, puts, db, cl, lastPut>>

\* (mutant) the shutdown channel is also polled while a pass runs.
RecvPolledInPass(sc, i) == sc.tasks[i].pc \in {"select", "pass"}
\* Task i polls its shutdown channel: only in the select! at the top of the
\* loop.
RecvPolled(sc, i) == sc.tasks[i].pc = "select"

\* The scheduler after task i has left its loop: the running flag is
\* cleared.
TaskReceived(sc, i) ==
    [sc EXCEPT !.tasks[i].pc = "done", !.tasks[i].msgs = 0, !.is_running = FALSE]

\* The recv branch of the select!: the task leaves the loop and clears the
\* running flag.
TaskRecv(i) ==
    /\ RecvPolled(sched, i)
    /\ Pending(sched, i)
    /\ sched' = TaskReceived(sched, i)
    /\ UNCHANGED <<mgr, now, puts, db, cl, lastPut>>

\* (mutant) a pass is run at every wake-up.
PassDueAlways(t, next) == TRUE
\* The due check after the sleep branch.
PassDue(t, next) == t >= next

\* (mutant) a pass that failed ends the loop.
AfterPassStopsOnErr(sc, i, res, t) ==
    IF res = ResErr THEN TaskReceived(sc, i) ELSE EnterSelect(sc, i, t + Interval)
\* Task i after a pass that returned res at time t (Ok or Err, both only
\* logged): the next due time is set from the clock.
AfterPass(sc, i, res, t) == EnterSelect(sc, i, t + Interval)

\* Task i after the sleep branch of its select! at time t, where `call` is
\* the caller after cleanup_expired up to its first flush.
Woken(sc, i, t, call) ==
    IF PassDue(t, sc.tasks[i].next)
    THEN IF call.pc = "idle" THEN AfterPass(sc, i, call.res, t)
         ELSE [sc EXCEPT !.tasks[i].pc = "pass"]
    ELSE EnterSelect(sc, i, sc.tasks[i].next)

\* The sleep branch of the select!, then the due check; when the pass is due,
\* cleanup_expired(current_timestamp()) up to its first flush.  The task runs
\* its passes as caller "c2" of the store.
TaskWake(i) ==
    /\ sched.tasks[i].pc = "select"
    /\ ~ sched.tasks[i].ready
    /\ LET call == CleanupExpiredCall(db, now, DefaultBatchSize)
       IN  /\ PassDue(now, sched.tasks[i].next) => cl["c2"].pc = "idle"
           /\ cl' = IF PassDue(now, sched.tasks[i].next)
                    THEN [cl EXCEPT !["c2"] = call] ELSE cl
           /\ sched' = Woken(sched, i, now, call)
    /\ UNCHANGED <<mgr, now, puts, db, lastPut>>

\* The pass has returned.
TaskPassEnd(i) ==
    /\ sched.tasks[i].pc = "pass"
    /\ cl["c2"].pc = "idle"
    /\ sched' = AfterPass(sched, i, cl["c2"].res, now)
    /\ UNCHANGED <<mgr, now, puts, db, cl, lastPut>>

\* The steps of the background tasks; DeleteRawKey and BatchDeleteCommit of
\* caller "c2" are the steps of the pass a task is in.
TaskStep ==
    \/ \E i \in 1..Len(sched.tasks) : TaskInit(i)
    \/ \E i \in 1..Len(sched.tasks) : TaskRecv(i)
    \/ \E i \in 1..Len(sched.tasks) : TaskWake(i)
    \/ \E i \in 1..Len(sched.tasks) : TaskPassEnd(i)
    \/ DeleteRawKey("c2")
    \/ BatchDeleteCommit("c2")

\* (mutant) trigger_cleanup() also moves the next due time of the tasks.
TriggerStartedReschedules(sc, t) ==
    [sc EXCEPT !.pc = "trigger", !.trig = t, !.ret = "-",
               !.tasks = [i \in DOMAIN @ |-> [@[i] EXCEPT !.next = t + Interval]]]
\* The scheduler in trigger_cleanup(), which has read current_timestamp()
\* as t.
TriggerStarted(sc, t) == [sc EXCEPT !.pc = "trigger", !.trig = t, !.ret = "-"]
\* The scheduler after trigger_cleanup() has returned: Ok(current_time) when
\* the pass returned Ok, its error otherwise.
TriggerReturned(sc, res) ==
    [sc EXCEPT !.pc = "idle",
               !.ret = IF res = ResOk THEN "triggered" ELSE "trigger_failed"]

\* trigger_cleanup(): current_timestamp(), then cleanup_expired with it up to
\* its first flush.  The pass runs in caller slot "c1".
TriggerCleanup ==
    /\ sched.pc = "idle"
    /\ cl["c1"].pc = "idle"
    /\ LET call == CleanupExpiredCall(db, now, DefaultBatchSize)
       IN  /\ cl' = [cl EXCEPT !["c1"] = call]
           /\ sched' = IF call.pc = "idle"
                       THEN TriggerReturned(TriggerStarted(sched, now), call.res)
                       ELSE TriggerStarted(sched, now)
    /\ UNCHANGED <<mgr, now, puts, db, lastPut>>

\* trigger_cleanup(): the pass has returned.
TriggerReturn ==
    /\ sched.pc = "trigger"
    /\ cl["c1"].pc = "idle"
    /\ sched' = TriggerReturned(sched, cl["c1"].res)
    /\ UNCHANGED <<mgr, now, puts, db, cl, lastPut>>

\* The steps of trigger_cleanup() and of the pass it is in.
TriggerStep ==
    \/ TriggerCleanup
    \/ TriggerReturn
    \/ sched.pc = "trigger" /\ DeleteRawKey("c1")
    \/ sched.pc = "trigger" /\ BatchDeleteCommit("c1")

\* (mutant) drop sends nothing and leaks the shutdown sender.
DroppedKeepsSender(sc) == [sc EXCEPT !.pc = "dropped"]
\* The scheduler after drop: with the running flag set, try_send on the
\* stored sender (a failure is ignored); then the fields are dropped, the
\* sender with them.
Dropped(sc) ==
    [sc EXCEPT
        !.pc = "dropped",
        !.shutdown_tx = None,
        !.tasks = IF sc.shutdown_tx = None THEN @
                  ELSE LET i == sc.shutdown_tx[1]
                       IN  [@ EXCEPT ![i].open = FALSE,
                                     ![i].msgs = IF sc.is_running /\ Alive(sc, i)
                                                 THEN 1 ELSE @]]

\* drop of the scheduler, by its owner between two calls or after the
\* future of a stop() call was dropped before it completed.
Drop ==
    /\ sched.pc \in {"idle", "stop_send", "stop_wait"}
    /\ sched' = Dropped(sched)
    /\ UNCHANGED <<mgr, now, puts, db, cl, lastPut>>

(* ------------------------ RksdbTtlSchedulerManager --------------------- *)
\* The store of a member scheduler: nobody writes to the stores the members
\* clean.
EmptyStore == [cf \in OpenedCFs |-> <<>>]

\* add_scheduler with config.enable_cleanup = enable.
AddScheduler(m, enable) == [m EXCEPT !.schedulers = Append(@, SchedNew(enable))]

\* (mutant) start_all starts its first scheduler only.
StartedFirstOnly(ss) ==
    [j \in DOMAIN ss |-> IF j = 1 THEN Started(ss[j]) ELSE ss[j]]
\* The schedulers after start_all: start() of each in turn (start() returns
\* no error).
StartedAll(ss) == [j \in DOMAIN ss |-> Started(ss[j])]

\* start_all(): one step, it awaits nothing.
StartAll ==
    /\ mgr.pc = "idle"
    /\ \A j \in 1..Len(mgr.schedulers) :
            Spawns(mgr.schedulers[j]) => Len(mgr.schedulers[j].tasks) < MaxStarts
    /\ mgr' = [mgr EXCEPT !.schedulers = StartedAll(@), !.ret = "started_all"]
    /\ UNCHANGED <<now, puts, db, cl, lastPut, sched>>

\* running_count(): the schedulers whose running flag is set.
RECURSIVE RunningCountOf(_)
RunningCountOf(ss) ==
    IF ss = <<>> THEN 0
    ELSE (IF Head(ss).is_running THEN 1 ELSE 0) + RunningCountOf(Tail(ss))
RunningCount(m) == RunningCountOf(m.schedulers)
\* all_running().
AllRunning(m) ==
    /\ m.schedulers # <<>>
    /\ \A j \in 1..Len(m.schedulers) : m.schedulers[j].is_running

\* The manager in stop_all() after stop() of the member its loop is at has
\* returned: the next member, or the return of stop_all().
StopAllNext(m) ==
    IF m.i = Len(m.schedulers)
    THEN [m EXCEPT !.pc = "idle", !.i = 0, !.ret = "stopped_all"]
    ELSE [m EXCEPT !.i = @ + 1]
\* The manager in stop_all() after a step of stop() of the member its loop
\* is at, which left that member as s.
StopAllMember(m, s) ==
    LET m2 == [m EXCEPT !.schedulers[m.i] = s]
    IN  IF s.pc = "idle" THEN StopAllNext(m2) ELSE m2

\* stop_all(): the loop is entered, or left at once by an empty manager.
StopAll ==
    /\ mgr.pc = "idle"
    /\ mgr' = IF mgr.schedulers = <<>>
              THEN [mgr EXCEPT !.ret = "stopped_all"]
              ELSE [mgr EXCEPT !.pc = "stop_all", !.i = 1, !.ret = "-"]
    /\ UNCHANGED <<now, puts, db, cl, lastPut, sched>>

\* stop_all(): the steps of stop() of the member the loop is at.
StopAllLoad ==
    /\ mgr.pc = "stop_all"
    /\ mgr.schedulers[mgr.i].pc = "idle"
    /\ mgr' = StopAllMember(mgr, StopLoaded(mgr.schedulers[mgr.i]))
    /\ UNCHANGED <<now, puts, db, cl, lastPut, sched>>
StopAllSend ==
    /\ mgr.pc = "stop_all"
    /\ mgr.schedulers[mgr.i].pc = "stop_send"
    /\ mgr' = StopAllMember(mgr, StopSent(mgr.schedulers[mgr.i]))
    /\ UNCHANGED <<now, puts, db, cl, lastPut, sched>>
StopAllReturn ==
    /\ mgr.pc = "stop_all"
    /\ mgr.schedulers[mgr.i].pc = "stop_wait"
    /\ StopWaitOver(mgr.schedulers[mgr.i])
    /\ mgr' = StopAllMember(mgr, StopReturned(mgr.schedulers[mgr.i]))
    /\ UNCHANGED <<now, puts, db, cl, lastPut, sched>>
StopAllTimeout ==
    /\ mgr.pc = "stop_all"
    /\ mgr.schedulers[mgr.i].pc = "stop_wait"
    /\ mgr.schedulers[mgr.i].is_running
    /\ mgr' = StopAllMember(mgr, StopTimedOut(mgr.schedulers[mgr.i]))
    /\ UNCHANGED <<now, puts, db, cl, lastPut, sched>>

\* The steps of task i of member j: as TaskInit, TaskRecv and TaskWake, with
\* the passes run on the member's own store.
MemberTaskInit(j, i) ==
    /\ mgr.schedulers[j].tasks[i].pc = "init"
    /\ mgr' = [mgr EXCEPT !.schedulers[j] = EnterSelect(@, i, now + Interval)]
    /\ UNCHANGED <<now, puts, db, cl, lastPut, sched>>
MemberTaskRecv(j, i) ==
    /\ RecvPolled(mgr.schedulers[j], i)
    /\ Pending(mgr.schedulers[j], i)
    /\ mgr' = [mgr EXCEPT !.schedulers[j] = TaskReceived(@, i)]
    /\ UNCHANGED <<now, puts, db, cl, lastPut, sched>>
MemberTaskWake(j, i) ==
    /\ mgr.schedulers[j].tasks[i].pc = "select"
    /\ ~ mgr.schedulers[j].tasks[i].ready
    /\ mgr' = [mgr EXCEPT !.schedulers[j] =
                Woken(@, i, now, CleanupExpiredCall(EmptyStore, now, DefaultBatchSize))]
    /\ UNCHANGED <<now, puts, db, cl, lastPut, sched>>

(* --------------------------- specifications ---------------------------- *)
ExpireAts == (now - PastLead)..(now + MaxLead)
\* The (schema, key) pairs the callers work on: two keys of one schema and a
\* key of a second schema with the same encoded bytes as one of them.
Targets == {<<"A", k>> : k \in Keys} \cup {<<"B", 1>>}
\* The pair concurrent callers contend for.
SharedTargets == {<<"A", 1>>}

Step(c, T, budget) ==
    \/ \E t \in T, v \in Values, e \in ExpireAts :
            PutWithTtl(c, t[1], t[2], v, e, budget)
    \/ PutWithTtlCommit(c)
    \/ \E t \in T : GetCheckTtl(c, t[1], t[2])
    \/ GetCheckTtlGet(c)
    \/ \E t \in T : DeleteExpired(c, t[1], t[2])
    \/ DeleteExpiredLookup(c)
    \/ DeleteExpiredCommit(c)
    \/ \E maxb \in 0..MaxBatch : CleanupExpired(c, maxb)
    \/ DeleteRawKey(c)
    \/ BatchDeleteCommit(c)

\* One caller: every call returns before the next one starts.
SeqNext == Tick \/ Step("c1", Targets, MaxPuts)
SeqSpec == Init /\ [][SeqNext]_vars

\* Concurrent callers on one store.
Next == Tick \/ \E c \in Clients : Step(c, SharedTargets, MaxPuts - 1)
Spec == Init /\ [][Next]_vars

\* One caller that mixes the TTL calls with plain put and delete on one key.
FacadeNext ==
    \/ Tick
    \/ Step("c1", SharedTargets, MaxPuts - 1)
    \/ \E t \in SharedTargets, v \in Values : Put("c1", t[1], t[2], v)
    \/ \E t \in SharedTargets : Delete("c1", t[1], t[2])
FacadeSpec == Init /\ [][FacadeNext]_vars

\* A scheduler with its owner and its background tasks, and a caller "c1"
\* that writes records which expire a second later to the store the
\* scheduler cleans.
SchedInit ==
    /\ now = StartTime
    /\ puts = 0
    /\ db = [cf \in OpenedCFs |-> <<>>]
    /\ cl = [c \in Clients |-> Fresh]
    /\ lastPut = [s \in Schemas |-> [k \in Keys |-> None]]
    /\ \E enable \in BOOLEAN : sched = SchedNew(enable)
    /\ mgr = ManagerNew
SchedNext ==
    \/ Tick
    \/ Start
    \/ Stop
    \/ StopSend
    \/ StopReturn
    \/ StopTimeout
    \/ TaskStep
    \/ \E t \in SharedTargets : PutWithTtl("c1", t[1], t[2], 1, now + 1, MaxPuts - 1)
    \/ PutWithTtlCommit("c1")
SchedSpec == SchedInit /\ [][SchedNext]_vars
\* The runtime keeps running a spawned task that can take a step.
SchedFairSpec == SchedSpec /\ WF_vars(TaskStep)

\* The same scheduler whose owner also calls trigger_cleanup(); caller slot
\* "c1" is busy until trigger_cleanup() has returned.
TriggerNext ==
    \/ Tick
    \/ Start
    \/ Stop
    \/ StopSend
    \/ StopReturn
    \/ StopTimeout
    \/ TaskStep
    \/ TriggerStep
    \/ /\ sched.pc # "trigger"
       /\ \E t \in SharedTargets :
            PutWithTtl("c1", t[1], t[2], 1, now + 1, MaxPuts - 1)
    \/ PutWithTtlCommit("c1")
TriggerSpec == SchedInit /\ [][TriggerNext]_vars

\* The scheduler of SchedSpec, which its owner may drop.
DropNext ==
    \/ SchedNext
    \/ Drop
DropSpec == SchedInit /\ [][DropNext]_vars
\* The runtime keeps running a spawned task after the scheduler is gone.
DropFairSpec == DropSpec /\ WF_vars(TaskStep)

\* The steps of stop() after its load of the running flag.
StopStep == StopSend \/ StopReturn \/ StopTimeout
\* The future of stop() is polled until it completes, and its wait loop is
\* bounded by the timeout; nothing is assumed about the tasks.
StopFairSpec == SchedSpec /\ WF_vars(StopStep)

\* Two callers whose put_with_ttl calls on one key overlap: no call starts
\* once a put_with_ttl has been committed.
RaceNext ==
    \/ Tick
    \/ /\ db[TtlSingleCF] = <<>>
       /\ \E c \in Clients, t \in SharedTargets, v \in Values, e \in ExpireAts :
            PutWithTtl(c, t[1], t[2], v, e, MaxPuts)
    \/ \E c \in Clients : PutWithTtlCommit(c)
RaceSpec == Init /\ [][RaceNext]_vars

\* A running scheduler whose tasks are never asked to stop, and a caller
\* "c1" that writes records with a TTL to the store the scheduler cleans.
SweepNext ==
    \/ Tick
    \/ Start
    \/ \E i \in 1..Len(sched.tasks) : TaskInit(i)
    \/ \E i \in 1..Len(sched.tasks) : TaskWake(i)
    \/ \E i \in 1..Len(sched.tasks) : TaskPassEnd(i)
    \/ DeleteRawKey("c2")
    \/ BatchDeleteCommit("c2")
    \/ \E t \in Targets, e \in (now + 1)..(now + MaxLead) :
            PutWithTtl("c1", t[1], t[2], 1, e, MaxPuts)
    \/ PutWithTtlCommit("c1")
SweepSpec == Init /\ [][SweepNext]_vars

\* One caller that writes one key again and again with a TTL, reads it and
\* runs cleanup passes, on a clock that has passed StartTime + MaxLead.
RenewInit ==
    /\ now = StartTime + MaxLead
    /\ puts = 0
    /\ db = [cf \in OpenedCFs |-> <<>>]
    /\ cl = [c \in Clients |-> Fresh]
    /\ lastPut = [s \in Schemas |-> [k \in Keys |-> None]]
    /\ sched = SchedNew(TRUE)
    /\ mgr = ManagerNew
LateTick ==
    /\ now < StartTime + MaxLead + MaxTick
    /\ now' = now + 1
    /\ UNCHANGED <<mgr, sched, puts, db, cl, lastPut>>
RenewNext ==
    \/ LateTick
    \/ \E t \in SharedTargets, v \in Values, e \in (now + 1)..(now + MaxLead) :
            PutWithTtl("c1", t[1], t[2], v, e, MaxPuts)
    \/ PutWithTtlCommit("c1")
    \/ \E t \in SharedTargets : GetCheckTtl("c1", t[1], t[2])
    \/ GetCheckTtlGet("c1")
    \/ DeleteExpiredLookup("c1")
    \/ DeleteExpiredCommit("c1")
    \/ \E maxb \in 1..MaxBatch : CleanupExpired("c1", maxb)
    \/ DeleteRawKey("c1")
    \/ BatchDeleteCommit("c1")
RenewSpec == RenewInit /\ [][RenewNext]_vars

\* A manager of no, one or two schedulers, its owner and the tasks of its
\* members.
ManagerInit ==
    /\ now = StartTime
    /\ puts = 0
    /\ db = [cf \in OpenedCFs |-> <<>>]
    /\ cl = [c \in Clients |-> Fresh]
    /\ lastPut = [s \in Schemas |-> [k \in Keys |-> None]]
    /\ sched = SchedNew(TRUE)
    /\ mgr \in {ManagerNew}
            \cup {AddScheduler(ManagerNew, a) : a \in BOOLEAN}
            \cup {AddScheduler(AddScheduler(ManagerNew, a), b) : a, b \in BOOLEAN}
ManagerNext ==
    \/ Tick
    \/ StartAll
    \/ StopAll
    \/ StopAllLoad
    \/ StopAllSend
    \/ StopAllReturn
    \/ StopAllTimeout
    \/ \E j \in 1..Len(mgr.schedulers) :
            \E i \in 1..Len(mgr.schedulers[j].tasks) : MemberTaskInit(j, i)
    \/ \E j \in 1..Len(mgr.schedulers) :
            \E i \in 1..Len(mgr.schedulers[j].tasks) : MemberTaskRecv(j, i)
    \/ \E j \in 1..Len(mgr.schedulers) :
            \E i \in 1..Len(mgr.schedulers[j].tasks) : MemberTaskWake(j, i)
ManagerSpec == ManagerInit /\ [][ManagerNext]_vars

\* One caller that writes records with a TTL and runs cleanup passes with
\* batch sizes from 1 to MaxBatch + 1.
PassNext ==
    \/ Tick
    \/ \E t \in Targets, e \in (now + 1)..(now + MaxLead) :
            PutWithTtl("c1", t[1], t[2], 1, e, MaxPuts)
    \/ PutWithTtlCommit("c1")
    \/ \E maxb \in 1..(MaxBatch + 1) : CleanupExpired("c1", maxb)
    \/ DeleteRawKey("c1")
    \/ BatchDeleteCommit("c1")
PassSpec == Init /\ [][PassNext]_vars

\* Caller "c2" writes one key with a TTL while caller "c1" reads it with
\* get_check_ttl and runs cleanup passes.
ContendNext ==
    \/ Tick
    \/ \E t \in SharedTargets, v \in Values, e \in (now + 1)..(now + MaxLead) :
            PutWithTtl("c2", t[1], t[2], v, e, MaxPuts)
    \/ PutWithTtlCommit("c2")
    \/ \E t \in SharedTargets : GetCheckTtl("c1", t[1], t[2])
    \/ GetCheckTtlGet("c1")
    \/ DeleteExpiredLookup("c1")
    \/ DeleteExpiredCommit("c1")
    \/ \E maxb \in 1..MaxBatch : CleanupExpired("c1", maxb)
    \/ DeleteRawKey("c1")
    \/ BatchDeleteCommit("c1")
ContendSpec == Init /\ [][ContendNext]_vars

\* One caller that works on a key of schema A and on the key of schema B
\* with the same encoded bytes, with the TTL calls, plain put on the key of
\* schema A, and get_ttl_stats.
FrameTargets == {<<"A", 1>>, <<"B", 1>>}
FrameNext ==
    \/ Tick
    \/ \E t \in FrameTargets, e \in (now + 1)..(now + MaxLead) :
            PutWithTtl("c1", t[1], t[2], 1, e, MaxPuts)
    \/ PutWithTtlCommit("c1")
    \/ \E t \in FrameTargets : GetCheckTtl("c1", t[1], t[2])
    \/ GetCheckTtlGet("c1")
    \/ \E t \in FrameTargets : DeleteExpired("c1", t[1], t[2])
    \/ DeleteExpiredLookup("c1")
    \/ DeleteExpiredCommit("c1")
    \/ \E v \in Values : Put("c1", "A", 1, v)
    \/ GetTtlStats("c1")
FrameSpec == Init /\ [][FrameNext]_vars

\* One caller of the plain facade: batches, put, delete and multi_get.
BatchNext ==
    \/ \E ops \in OpSeqs : WriteSchemasCall("c1", ops)
    \/ \E k \in Keys, v \in Values : Put("c1", "A", k, v)
    \/ \E k \in Keys : Delete("c1", "A", k)
    \/ \E keys \in KeySeqs : MultiGet("c1", "A", keys)
BatchSpec == Init /\ [][BatchNext]_vars

(* ------------------------------- claims -------------------------------- *)
Primary(d, s, k) == GetCf(d, ColumnFamilyName(s), EncodeKey(k))
Single(d, s, k) == GetCf(d, TtlSingleCF, TtlSingleKey(s, EncodeKey(k)))
Idle(c) == cl[c].pc = "idle"
\* Caller c takes a step that ends its call.
Returns(c) == cl[c].pc # "idle" /\ cl'[c].pc = "idle"
\* Caller c takes the first step of a call.
Calls(c, op) == cl[c].pc = "idle" /\ cl'[c] # cl[c] /\ cl'[c].op = op

\* C1: between calls, for every (schema, key) the expiration index holds at
\* most one entry of that key, and it exists exactly when a TtlSingle entry of
\* the key exists, with the same expire_timestamp and cf_name.
C1_IndexSymmetry ==
    Idle("c1") =>
        \A t \in Targets :
            LET exp == ExpKeysOf(db, t[1], t[2])
                single == Single(db, t[1], t[2])
            IN  /\ Cardinality(exp) <= 1
                /\ (exp # {}) <=> (single # None)
                /\ \A x \in exp :
                      single # None =>
                        /\ x.expire_timestamp = single[1].expire_timestamp
                        /\ db[TtlExpirationCF][x].cf_name = single[1].cf_name

\* The three entries of the put_with_ttl call that caller record `call`
\* describes are present in store d.
PutEntriesPresent(d, call) ==
    /\ Primary(d, call.schema, call.key) = Some(EncodeValue(call.value))
    /\ Single(d, call.schema, call.key)
          = Some(TtlSingleValue(call.expire_at, call.schema))
    /\ GetCf(d, TtlExpirationCF,
             TtlExpirationKey(call.expire_at, call.schema, EncodeKey(call.key)))
          = Some(TtlExpirationValue(call.schema))
\* The column family and key of each of these three entries.
PutEntryKeys(call) ==
    {<<ColumnFamilyName(call.schema), EncodeKey(call.key)>>,
     <<TtlSingleCF, TtlSingleKey(call.schema, EncodeKey(call.key))>>,
     <<TtlExpirationCF,
       TtlExpirationKey(call.expire_at, call.schema, EncodeKey(call.key))>>}
\* Stores d1 and d2 agree outside the entries named by K.
SameExcept(d1, d2, K) ==
    \A cf \in DOMAIN d1 : \A x \in (DOMAIN d1[cf]) \cup (DOMAIN d2[cf]) :
        <<cf, x>> \notin K => GetCf(d1, cf, x) = GetCf(d2, cf, x)

\* C2: a put_with_ttl call changes the store in at most one step, its
\* write_schemas step, whatever other callers do meanwhile; that step either
\* fails and leaves the store as it was, or returns Ok with the primary
\* record, the TtlExpiration entry and the TtlSingle entry of the call all
\* written and no other entry changed.
C2_PutWithTtlAtomic ==
    [][\A c \in Clients :
        /\ Calls(c, "put_with_ttl") => db' = db
        /\ (cl[c].pc = "put_write" /\ Returns(c)) =>
              \/ cl'[c].res = ResErr /\ db' = db
              \/ /\ cl'[c].res = ResOk
                 /\ PutEntriesPresent(db', cl[c])
                 /\ SameExcept(db, db', PutEntryKeys(cl[c]))
      ]_vars
\* A put_with_ttl has committed its three entries while another caller is in
\* the middle of a read.
C2_Witness ==
    \E c \in Clients, r \in Clients :
        /\ Idle(c) /\ cl[c].op = "put_with_ttl" /\ cl[c].res = ResOk
        /\ lastPut[cl[c].schema][cl[c].key] # None
        /\ PutEntriesPresent(db, [schema |-> cl[c].schema, key |-> cl[c].key,
                value |-> lastPut[cl[c].schema][cl[c].key][1].value,
                expire_at |-> lastPut[cl[c].schema][cl[c].key][1].expire_at])
        /\ cl[r].pc = "gct_get"

\* C3: a get_check_ttl call that found a TtlSingle record with
\* expire_timestamp <= now at its check never returns Some(value): it returns
\* None (or the error of the engine when the deleting write fails).
C3_ExpiredNeverReturned ==
    [][\A c \in Clients :
        (cl[c].op = "get_check_ttl" /\ Returns(c)
            /\ cl[c].ttl # None /\ cl[c].ttl[1].expire_timestamp <= cl[c].ctime)
        => /\ cl'[c].res.tag # "Some"
           /\ cl'[c].res = ResNone \/ (cl[c].pc = "de_write" /\ cl'[c].res = ResErr)
      ]_vars
\* A get_check_ttl that met an expired record has returned None.
C3_Witness ==
    \E c \in Clients :
        Idle(c) /\ cl[c].op = "get_check_ttl" /\ cl[c].expired /\ cl[c].res = ResNone

\* Store d holds only complete TTL entries (a primary record, one
\* TtlExpiration entry and a matching TtlSingle entry each), with pairwise
\* distinct expire timestamps.
DistinctTtlEntries(d) ==
    /\ \A x \in DOMAIN d[TtlExpirationCF] :
          LET sk == [schema_name |-> x.schema_name, original_key |-> x.original_key]
              cf == d[TtlExpirationCF][x].cf_name
          IN  /\ GetCf(d, TtlSingleCF, sk)
                    = Some([expire_timestamp |-> x.expire_timestamp, cf_name |-> cf])
              /\ x.original_key \in DOMAIN d[cf]
    /\ \A sk \in DOMAIN d[TtlSingleCF] :
          [expire_timestamp |-> d[TtlSingleCF][sk].expire_timestamp,
           schema_name |-> sk.schema_name, original_key |-> sk.original_key]
              \in DOMAIN d[TtlExpirationCF]
    /\ \A x, y \in DOMAIN d[TtlExpirationCF] :
          x # y => x.expire_timestamp # y.expire_timestamp
\* Store d without the TTL entries whose expire timestamp is <= t.
Restrict(f, S) == [x \in S |-> f[x]]
WithoutExpired(d, t) ==
    LET gone == {x \in DOMAIN d[TtlExpirationCF] : x.expire_timestamp <= t}
    IN  [cf \in DOMAIN d |->
          IF cf = TtlExpirationCF THEN Restrict(d[cf], (DOMAIN d[cf]) \ gone)
          ELSE IF cf = TtlSingleCF
          THEN Restrict(d[cf], {sk \in DOMAIN d[cf] :
                                  d[cf][sk].expire_timestamp > t})
          ELSE Restrict(d[cf], {kb \in DOMAIN d[cf] :
                                  ~ \E x \in gone :
                                      /\ d[TtlExpirationCF][x].cf_name = cf
                                      /\ x.original_key = kb})]

\* C4: a cleanup pass at time T over complete TTL entries with distinct expire
\* timestamps that returns Ok has removed exactly the entries with
\* expire_timestamp <= T (primary record and both index entries) and left
\* every other entry as it was; this covers the pass that collects nothing
\* and returns in its first step.
C4_CleanupRemovesExactlyExpired ==
    [][/\ (Calls("c1", "cleanup_expired") /\ cl'["c1"].pc = "idle"
                /\ cl'["c1"].res = ResOk /\ DistinctTtlEntries(db))
            => db' = WithoutExpired(db, now)
       /\ (cl["c1"].op = "cleanup_expired" /\ Returns("c1")
                /\ cl'["c1"].res = ResOk /\ DistinctTtlEntries(cl["c1"].pre))
            => db' = WithoutExpired(cl["c1"].pre, cl["c1"].ctime)
      ]_vars

\* C5: for any two keys of the expiration index, the one with the smaller
\* expire_timestamp has the byte-lexicographically smaller encoding.
C5_EncodingOrderedByTimestamp ==
    \A a, b \in DOMAIN db[TtlExpirationCF] :
        a.expire_timestamp < b.expire_timestamp
            => BytesLess(EncodeExpKey(a), EncodeExpKey(b))

\* C6: while a cleanup pass is deleting the entries it collected, no collected
\* entry has its primary record deleted while its TtlExpiration or TtlSingle
\* entry still exists.
C6_SweepRemovesAtomically ==
    \A c \in Clients :
        cl[c].pc \in {"clean_del", "clean_write"} =>
            \A i \in 1..Len(cl[c].buf) :
                LET e == cl[c].buf[i]
                IN  e.key.original_key \notin DOMAIN db[e.value.cf_name]
                    => /\ e.key \notin DOMAIN db[TtlExpirationCF]
                       /\ [schema_name |-> e.key.schema_name,
                           original_key |-> e.key.original_key]
                              \notin DOMAIN db[TtlSingleCF]

C8_PastExpiryAccepted ==
    [][(Calls("c1", "put_with_ttl") /\ cl'["c1"].expire_at < now)
        => /\ cl'["c1"].pc = "put_write"
           /\ cl'["c1"].res # ResErr
      ]_vars

\* C9: when the entries of a key are as the last committed put_with_ttl(k, v,
\* expire_at) left them, a get_check_ttl(k) whose check happens at a time
\* before expire_at changes no stored entry in any of its steps and returns
\* Some(v).
C9_LiveReadReturnsValue ==
    [][LET s == cl'["c1"].schema
           k == cl'["c1"].key
       IN  /\ (Calls("c1", "get_check_ttl") /\ lastPut[s][k] # None
                    /\ now < lastPut[s][k][1].expire_at)
                => cl'["c1"].pc = "gct_get" /\ db' = db
           /\ (cl["c1"].op = "get_check_ttl" /\ Returns("c1")
                    /\ lastPut[s][k] # None
                    /\ cl["c1"].ctime < lastPut[s][k][1].expire_at)
                => cl'["c1"].res = ResSome(lastPut[s][k][1].value) /\ db' = db
      ]_vars
\* A get_check_ttl has returned the value of the last put_with_ttl of its
\* key, which is still live.
C9_Witness ==
    LET s == cl["c1"].schema
        k == cl["c1"].key
    IN  /\ Idle("c1") /\ cl["c1"].op = "get_check_ttl"
        /\ lastPut[s][k] # None
        /\ now < lastPut[s][k][1].expire_at
        /\ cl["c1"].res = ResSome(lastPut[s][k][1].value)
        /\ cl["c1"].res.val = MaxValue

\* C10: when get_check_ttl(k) returns None on its expired branch, the primary
\* record of k, every TtlExpiration entry of k and the TtlSingle entry of k
\* are absent.
C10_ExpiredReadRemovesAll ==
    [][(cl["c1"].op = "get_check_ttl" /\ cl["c1"].expired /\ Returns("c1")
            /\ cl'["c1"].res = ResNone)
        => /\ Primary(db', cl["c1"].schema, cl["c1"].key) = None
           /\ Single(db', cl["c1"].schema, cl["c1"].key) = None
           /\ ExpKeysOf(db', cl["c1"].schema, cl["c1"].key) = {}
      ]_vars

\* The (column family, key) pairs a batch names.
BatchKeys(rows) ==
    UNION {{<<cf, rows[cf][i].key>> : i \in 1..Len(rows[cf])} : cf \in DOMAIN rows}

\* C11: delete_expired(k) writes nothing in its lookup step; when no TtlSingle
\* record of k exists it returns Ok in that step with the store unchanged (so
\* a second consecutive call is a no-op); when one exists, its single write
\* step either fails and leaves the store as it was, or returns Ok with the
\* primary record of k, the TtlSingle entry of k and the TtlExpiration entry
\* that record names all removed and no other entry changed.
C11_DeleteExpiredIdempotent ==
    [][\A c \in Clients :
        /\ Calls(c, "delete_expired") =>
              /\ db' = db
              /\ Single(db, cl'[c].schema, cl'[c].key) = None
                    => cl'[c].pc = "idle" /\ cl'[c].res = ResOk
              /\ Single(db, cl'[c].schema, cl'[c].key) # None
                    => cl'[c].pc = "de_write"
        /\ (cl[c].op = "delete_expired" /\ cl[c].pc = "de_write" /\ Returns(c)) =>
              \/ cl'[c].res = ResErr /\ db' = db
              \/ /\ cl'[c].res = ResOk
                 /\ Primary(db', cl[c].schema, cl[c].key) = None
                 /\ Single(db', cl[c].schema, cl[c].key) = None
                 /\ \E x \in BatchKeys(cl[c].rows) : x[1] = TtlExpirationCF
                 /\ \A x \in BatchKeys(cl[c].rows) : x[2] \notin DOMAIN db'[x[1]]
                 /\ SameExcept(db, db', BatchKeys(cl[c].rows))
      ]_vars
\* After a put_with_ttl, both callers have called delete_expired on the key
\* and got Ok, and no entry of the key is left.
C11_Witness ==
    /\ puts > 0
    /\ \A c \in Clients :
          /\ Idle(c) /\ cl[c].op = "delete_expired" /\ cl[c].res = ResOk
          /\ KeyEntries(db, cl[c].schema, cl[c].key) = <<None, None, {}>>

\* C15: cleanup_expired_with_batch_size(current_time, 0) returns an error in
\* its first step and leaves the whole store as it was.
C15_ZeroBatchRejected ==
    [][\A c \in Clients :
        CleanupExpired(c, 0) =>
            /\ cl'[c].pc = "idle"
            /\ cl'[c].res = ResErr
            /\ db' = db
      ]_vars
\* A cleanup call has returned an error straight away while the store holds
\* a complete entry that is expired.
C15_Witness ==
    \E c \in Clients :
        /\ Idle(c) /\ cl[c].op = "cleanup_expired" /\ cl[c].res = ResErr
        /\ \E x \in DOMAIN db[TtlExpirationCF] :
              /\ x.expire_timestamp <= now
              /\ x.original_key \in DOMAIN db[db[TtlExpirationCF][x].cf_name]
              /\ [schema_name |-> x.schema_name, original_key |-> x.original_key]
                    \in DOMAIN db[TtlSingleCF]

\* C12: when the last call was a plain put of a key that returned Ok, whatever
\* was done to the key before, the key has no TtlSingle and no TtlExpiration
\* entry (so that no TTL call can later remove or hide the record).
C12_PlainPutHasNoTtl ==
    (Idle("c1") /\ cl["c1"].op = "put" /\ cl["c1"].res = ResOk)
        => /\ Single(db, cl["c1"].schema, cl["c1"].key) = None
           /\ ExpKeysOf(db, cl["c1"].schema, cl["c1"].key) = {}

\* C13: a facade delete that returns Ok, of a key whose entries are as the
\* last put_with_ttl left them, leaves no primary record, no TtlSingle entry
\* and no TtlExpiration entry of the key.
C13_DeleteRemovesIndexEntries ==
    [][(Calls("c1", "delete") /\ cl'["c1"].res = ResOk
            /\ lastPut[cl'["c1"].schema][cl'["c1"].key] # None)
        => KeyEntries(db', cl'["c1"].schema, cl'["c1"].key) = <<None, None, {}>>
      ]_vars

\* What operation o of a batch leaves in store d when it has taken effect.
OpInEffect(d, o) ==
    /\ o.cf \in DOMAIN d
    /\ GetCf(d, o.cf, o.op.key) = IF o.op.type = "Value" THEN Some(o.op.value) ELSE None
\* Operation i of ops is the last one for its column family and key.
LastForKey(ops, i) ==
    \A j \in (i + 1)..Len(ops) :
        ~ (ops[j].cf = ops[i].cf /\ ops[j].op.key = ops[i].op.key)

\* C14: a write_schemas call either returns Ok, and then every operation of
\* the batch (the last one for each key) has taken effect and nothing else
\* has changed, or returns an error with the store unchanged; it returns an
\* error when the batch names a column family that is not open.
C14_BatchAllOrNothing ==
    [][Calls("c1", "write_schemas") =>
        LET ops == cl'["c1"].buf
        IN  /\ \/ cl'["c1"].res = ResErr /\ db' = db
               \/ /\ cl'["c1"].res = ResOk
                  /\ \A i \in 1..Len(ops) :
                        LastForKey(ops, i) => OpInEffect(db', ops[i])
                  /\ SameExcept(db, db',
                                {<<ops[i].cf, ops[i].op.key>> : i \in 1..Len(ops)})
            /\ (\E i \in 1..Len(ops) : ops[i].cf \notin DOMAIN db)
                    => cl'["c1"].res = ResErr
      ]_vars
\* A batch with an operation on a column family that is not open and a put
\* on an open one has returned an error, and the put is not in the store.
C14_Witness ==
    /\ Idle("c1") /\ cl["c1"].op = "write_schemas" /\ cl["c1"].res = ResErr
    /\ \E i, j \in 1..Len(cl["c1"].buf) :
          /\ cl["c1"].buf[i].cf \notin DOMAIN db
          /\ cl["c1"].buf[j].cf \in DOMAIN db
          /\ cl["c1"].buf[j].op.type = "Value"
          /\ ~ OpInEffect(db, cl["c1"].buf[j])
    /\ db[ColumnFamilyName("A")] # <<>>

\* The key at index i of the last multi_get is stored.
Stored(i) ==
    GetCf(db, ColumnFamilyName(cl["c1"].schema), EncodeKey(cl["c1"].keys[i])) # None
\* The slot that get returns for the key at index i of the last multi_get.
SlotOf(i) ==
    LET r == Get(db, cl["c1"].schema, cl["c1"].keys[i])
    IN  IF r.tag = "Some" THEN Some(r.val) ELSE None

\* C16: a multi_get that returns Ok returns one slot per requested key, in
\* the order of the keys: the slot of an absent key is None, and a slot is
\* the stored value of its key or (on an engine error for that key) None.
C16_MultiGetOneSlotPerKey ==
    (Idle("c1") /\ cl["c1"].op = "multi_get" /\ cl["c1"].res.tag = "Vec")
        => /\ Len(cl["c1"].res.val) = Len(cl["c1"].keys)
           /\ \A i \in 1..Len(cl["c1"].keys) :
                 /\ ~ Stored(i) => cl["c1"].res.val[i] = None
                 /\ cl["c1"].res.val[i] \in {None, SlotOf(i)}

\* C17: a multi_get of keys that are all stored, one of them with bytes that
\* fail to decode, returns Ok with None in the slot of that key and the
\* stored value (or None on an engine error) in every other slot.
C17_MultiGetDecodeFailureIsNone ==
    (/\ Idle("c1") /\ cl["c1"].op = "multi_get"
     /\ \A i \in 1..Len(cl["c1"].keys) : Stored(i)
     /\ \E i \in 1..Len(cl["c1"].keys) :
            Get(db, cl["c1"].schema, cl["c1"].keys[i]) = ResErr)
        => /\ cl["c1"].res.tag = "Vec"
           /\ Len(cl["c1"].res.val) = Len(cl["c1"].keys)
           /\ \A i \in 1..Len(cl["c1"].keys) :
                 cl["c1"].res.val[i] \in {None, SlotOf(i)}

\* C18: on a scheduler with enable_cleanup = false, start() and stop() each
\* return in one step and change nothing but the record of the call: no task
\* is spawned and the running flag stays false.
C18_DisabledStartIsNoOp ==
    [][(~ sched.enable /\ (Start \/ Stop)) =>
        /\ sched' = [sched EXCEPT !.ret = sched'.ret]
        /\ sched'.pc = "idle"
        /\ sched'.tasks = <<>>
        /\ ~ sched'.is_running
      ]_vars
\* start() has returned on a disabled scheduler after the caller of the store
\* wrote a record; nothing was spawned.
C18_Witness ==
    /\ ~ sched.enable /\ sched.ret = "disabled"
    /\ sched.tasks = <<>> /\ ~ sched.is_running
    /\ puts > 0

\* C19: start() on an enabled scheduler whose running flag is clear spawns
\* exactly one task and sets the flag; the flag stays set for as long as the
\* scheduler still holds its shutdown sender (no shutdown was requested);
\* start() with the flag set spawns nothing and changes neither the shutdown
\* sender nor the flag.
C19_StartSpawnsOneTask ==
    [][/\ (Start /\ sched.enable /\ ~ sched.is_running) =>
            /\ Len(sched'.tasks) = Len(sched.tasks) + 1
            /\ \A i \in 1..Len(sched.tasks) : ~ Alive(sched, i) /\ ~ Alive(sched', i)
            /\ Alive(sched', Len(sched'.tasks))
            /\ sched'.is_running
       /\ (Start /\ sched.enable /\ sched.is_running) =>
            /\ sched'.tasks = sched.tasks
            /\ sched'.shutdown_tx = sched.shutdown_tx
            /\ sched'.is_running
       /\ (sched.is_running /\ sched.shutdown_tx # None) => sched'.is_running
      ]_vars
\* start() has returned on a scheduler that was already running, whose one
\* task is in its loop.
C19_Witness ==
    /\ sched.ret = "already_running" /\ sched.is_running
    /\ Len(sched.tasks) = 1
    /\ sched.tasks[1].pc \in {"select", "pass"}
    /\ sched.shutdown_tx = Some(1)

\* C20: once stop() has sent the shutdown signal of a running scheduler, the
\* running flag is eventually clear (the task has left its loop); and when
\* stop() returns from its wait loop without the timeout, the running flag is
\* clear.
C20_StopClearsRunning ==
    /\ (sched.pc = "stop_wait") ~> (~ sched.is_running)
    /\ [][(sched.pc = "stop_wait" /\ sched'.pc = "idle" /\ sched'.ret = "stopped")
            => ~ sched'.is_running]_vars
\* stop() has returned without the timeout after the task had run a pass
\* that removed entries.
C20_Witness ==
    /\ sched.ret = "stopped" /\ sched.pc = "idle" /\ ~ sched.is_running
    /\ Len(sched.tasks) = 1 /\ sched.tasks[1].pc = "done"
    /\ puts > 0 /\ db[TtlSingleCF] = <<>>

\* C21: stop() always returns: once it has loaded a set running flag it
\* reaches its return; and when its wait loop ends with the flag still set,
\* stop() returns (Ok) with the flag still set and every task as it was, the
\* task that set the flag still alive.
C21_StopAlwaysReturns ==
    /\ (sched.pc \in {"stop_send", "stop_wait"})
            ~> (sched.pc = "idle" /\ sched.ret \in {"stopped", "timeout"})
    /\ [][(sched.pc = "stop_wait" /\ sched.is_running /\ sched'.pc = "idle") =>
            /\ sched'.ret = "timeout"
            /\ sched'.is_running
            /\ sched'.tasks = sched.tasks
            /\ \E i \in 1..Len(sched'.tasks) : Alive(sched', i)
      ]_vars
\* stop() has returned after its timeout: the flag is set and the task is
\* in its loop with the shutdown signal not yet taken.
C21_Witness ==
    /\ sched.pc = "idle" /\ sched.ret = "timeout" /\ sched.is_running
    /\ Len(sched.tasks) = 1
    /\ sched.tasks[1].pc \in {"select", "pass"}
    /\ sched.tasks[1].msgs = 1

\* C22: a task leaves its loop, and the running flag is cleared, only from
\* the select! at the top of the loop: a task inside a pass stays in it until
\* the pass has returned; and a task that has left its loop stays out of it,
\* while a pass of caller "c2" starts only in the step of a task that is in
\* its select!.
C22_ShutdownBetweenPasses ==
    [][/\ \A i \in 1..Len(sched.tasks) :
            /\ sched.tasks[i].pc = "pass" =>
                    /\ sched'.tasks[i].pc \in {"pass", "select"}
                    /\ sched'.tasks[i].pc = "select" => cl["c2"].pc = "idle"
            /\ sched.tasks[i].pc = "done" => sched'.tasks[i].pc = "done"
       /\ (sched.is_running /\ ~ sched'.is_running) =>
            \E i \in 1..Len(sched.tasks) :
                /\ sched.tasks[i].pc = "select"
                /\ sched'.tasks[i].pc = "done"
       /\ (cl["c2"].pc = "idle" /\ cl'["c2"] # cl["c2"]) =>
            \E i \in 1..Len(sched.tasks) :
                /\ sched.tasks[i].pc = "select"
                /\ sched'.tasks[i].pc \in {"pass", "select"}
      ]_vars
\* The shutdown signal is waiting while the task is inside a pass.
C22_Witness ==
    \E i \in 1..Len(sched.tasks) :
        /\ sched.tasks[i].pc = "pass"
        /\ sched.tasks[i].msgs = 1
        /\ cl["c2"].pc # "idle"

\* C23: when the pass of a task has returned an error, the task goes back to
\* its select! with the next due time one interval after the clock, and the
\* running flag, the owner's position and the result of the owner's last
\* call are as they were.
C23_FailedPassKeepsLoop ==
    [][\A i \in 1..Len(sched.tasks) :
            (/\ sched.tasks[i].pc = "pass"
             /\ cl["c2"].pc = "idle" /\ cl["c2"].res = ResErr
             /\ sched'.tasks[i].pc # "pass") =>
                /\ sched'.tasks[i].pc = "select"
                /\ sched'.tasks[i].next = now + Interval
                /\ sched'.is_running = sched.is_running
                /\ sched'.pc = sched.pc
                /\ sched'.ret = sched.ret
      ]_vars
\* A task is back in its select! after a pass that failed, with the running
\* flag set and the next pass due an interval later.
C23_Witness ==
    \E i \in 1..Len(sched.tasks) :
        /\ sched.tasks[i].pc = "select"
        /\ sched.tasks[i].next = now + Interval
        /\ sched.is_running
        /\ cl["c2"].op = "cleanup_expired" /\ cl["c2"].res = ResErr

\* C24: trigger_cleanup() reads the clock and starts one cleanup pass with
\* it, whatever the running flag and config.enable_cleanup are; no second
\* pass starts before it returns; it returns that timestamp exactly when the
\* pass returned Ok; and from its call to its return it changes neither the
\* running flag, nor the shutdown sender, nor any task (its next due time
\* included).
C24_TriggerRunsOnePass ==
    [][/\ TriggerCleanup =>
            /\ sched'.trig = now
            /\ cl'["c1"].op = "cleanup_expired"
            /\ cl'["c1"].pc # "idle" =>
                    /\ cl'["c1"].ctime = now
                    /\ sched'.pc = "trigger"
            /\ cl'["c1"].pc = "idle" =>
                    /\ sched'.pc = "idle"
                    /\ sched'.ret = "triggered" <=> cl'["c1"].res = ResOk
       /\ sched.pc = "trigger" =>
            /\ ~ (cl["c1"].pc = "idle" /\ cl'["c1"].pc # "idle")
            /\ cl["c1"].pc # "idle" => cl["c1"].ctime = sched.trig
            /\ sched'.trig = sched.trig
            /\ sched'.pc = "idle" =>
                    /\ cl["c1"].pc = "idle"
                    /\ sched'.ret = "triggered" <=> cl["c1"].res = ResOk
       /\ (TriggerCleanup \/ (sched.pc = "trigger" /\ sched'.pc = "idle")) =>
            /\ sched'.is_running = sched.is_running
            /\ sched'.shutdown_tx = sched.shutdown_tx
            /\ sched'.tasks = sched.tasks
            /\ sched'.enable = sched.enable
      ]_vars
\* trigger_cleanup() has returned its timestamp on a scheduler that is not
\* enabled, after a pass that removed an entry.
C24_Witness ==
    /\ sched.pc = "idle" /\ sched.ret = "triggered" /\ sched.trig = now
    /\ ~ sched.enable /\ ~ sched.is_running
    /\ puts > 0 /\ db[TtlSingleCF] = <<>>

\* C30: a task starts a pass only when the clock has reached its next due
\* time; that due time is set one interval after the clock when the task
\* starts, and afterwards changes only when a pass of the task has finished,
\* to one interval after the clock.
C30_PassNotBeforeInterval ==
    [][\A i \in 1..Len(sched.tasks) :
            /\ (/\ sched.tasks[i].pc = "select"
                /\ \/ sched'.tasks[i].pc = "pass"
                   \/ sched'.tasks[i].next # sched.tasks[i].next
                   \/ cl'["c2"] # cl["c2"]) =>
                    now >= sched.tasks[i].next
            /\ (sched.tasks[i].pc = "init" /\ sched'.tasks[i].pc # "init") =>
                    sched'.tasks[i].next = now + Interval
            /\ (/\ sched.tasks[i].pc # "init"
                /\ sched'.tasks[i].next # sched.tasks[i].next) =>
                    /\ sched'.tasks[i].next = now + Interval
                    /\ sched'.tasks[i].pc = "select"
                    /\ cl'["c2"].pc = "idle" /\ cl'["c2"].op = "cleanup_expired"
      ]_vars
\* A task is inside a pass, an interval or more after the scheduler was
\* created.
C30_Witness ==
    \E i \in 1..Len(sched.tasks) :
        /\ sched.tasks[i].pc = "pass"
        /\ now >= StartTime + Interval

\* C26: when the overlapping put_with_ttl calls of two callers on one key
\* have both returned Ok, the key has exactly one TtlExpiration entry and a
\* TtlSingle entry, with the same expire_timestamp and cf_name.
C26_ConcurrentPutsKeepIndex ==
    (\A c \in Clients :
        Idle(c) /\ cl[c].op = "put_with_ttl" /\ cl[c].res = ResOk) =>
        \A t \in SharedTargets :
            LET exp == ExpKeysOf(db, t[1], t[2])
                single == Single(db, t[1], t[2])
            IN  /\ Cardinality(exp) = 1
                /\ single # None
                /\ \A x \in exp :
                      /\ x.expire_timestamp = single[1].expire_timestamp
                      /\ db[TtlExpirationCF][x].cf_name = single[1].cf_name

C28_RenewedKeySurvivesCleanup ==
    [][\A t \in SharedTargets :
        LET lp == lastPut[t[1]][t[2]]
        IN  /\ (/\ cl["c1"].op = "cleanup_expired" /\ cl["c1"].pc # "idle"
                /\ lp # None /\ lp[1].expire_at > cl["c1"].ctime) =>
                    Primary(db', t[1], t[2]) = Primary(db, t[1], t[2])
            /\ (/\ cl["c1"].op = "get_check_ttl" /\ Returns("c1")
                /\ cl["c1"].schema = t[1] /\ cl["c1"].key = t[2]
                /\ lp # None /\ lp[1].expire_at > cl["c1"].ctime) =>
                    cl'["c1"].res = ResSome(lp[1].value)
      ]_vars

\* C29: while a background task is inside a pass, the entries collected for
\* the next deletion batch are at most config.max_cleanup_batch_size.
C29_PassBatchWithinConfig ==
    (\E i \in 1..Len(sched.tasks) : sched.tasks[i].pc = "pass") =>
        Len(cl["c2"].buf) <= sched.max_cleanup_batch_size

RECURSIVE OneAtATime(_, _)
OneAtATime(d, ops) ==
    IF ops = <<>> THEN d
    ELSE LET o == Head(ops)
         IN  OneAtATime(
                [d EXCEPT ![o.cf] = IF o.op.type = "Value"
                                    THEN CfPut(@, o.op.key, o.op.value)
                                    ELSE CfDelete(@, o.op.key)],
                Tail(ops))

\* C31: the store after a write_schemas call that returned Ok is the store
\* obtained by applying the operations of the batch one at a time in the
\* order they were added; for every (column family, key) the operation
\* added last is the one in effect.
C31_BatchAppliesInOrder ==
    [][(Calls("c1", "write_schemas") /\ cl'["c1"].res = ResOk) =>
        LET ops == cl'["c1"].buf
        IN  /\ db' = OneAtATime(db, ops)
            /\ \A i \in 1..Len(ops) :
                    LastForKey(ops, i) => OpInEffect(db', ops[i])
      ]_vars
\* A batch of a put followed by a delete of the same key was written to a
\* store that held the key, and the key is absent.
C31_Witness ==
    /\ Idle("c1") /\ cl["c1"].op = "write_schemas" /\ cl["c1"].res = ResOk
    /\ Len(cl["c1"].buf) = 2
    /\ cl["c1"].buf[1].op.type = "Value"
    /\ cl["c1"].buf[2].op.type = "Deletion"
    /\ cl["c1"].buf[1].cf = cl["c1"].buf[2].cf
    /\ cl["c1"].buf[1].op.key = cl["c1"].buf[2].op.key
    /\ GetCf(db, cl["c1"].buf[1].cf, cl["c1"].buf[1].op.key) = None
    /\ db[ColumnFamilyName("B")] # <<>>

\* The entries the scan of a pass with timestamp t meets in iterator `it`:
\* those before the first one with expire_timestamp > t.
RECURSIVE MetByScan(_, _)
MetByScan(it, t) ==
    IF it = <<>> THEN <<>>
    ELSE IF Head(it).key.expire_timestamp > t THEN <<>>
    ELSE <<Head(it)>> \o MetByScan(Tail(it), t)
\* Store d without the primary record and the two index entries that each
\* entry of the sequence `met` names.
WithoutMet(d, met) ==
    LET es == {met[i] : i \in 1..Len(met)}
    IN  [cf \in DOMAIN d |->
          IF cf = TtlExpirationCF
          THEN Restrict(d[cf], (DOMAIN d[cf]) \ {e.key : e \in es})
          ELSE IF cf = TtlSingleCF
          THEN Restrict(d[cf], (DOMAIN d[cf]) \
                    {[schema_name |-> e.key.schema_name,
                      original_key |-> e.key.original_key] : e \in es})
          ELSE Restrict(d[cf], (DOMAIN d[cf]) \
                    {e.key.original_key : e \in {x \in es : x.value.cf_name = cf}})]

C33_ExpiredReadSparesNewRecord ==
    [][\A t \in SharedTargets :
        LET lp == lastPut[t[1]][t[2]]
        IN  (/\ cl["c1"].op = "get_check_ttl" /\ cl["c1"].expired
             /\ cl["c1"].schema = t[1] /\ cl["c1"].key = t[2]
             /\ cl["c1"].pc = "de_write" /\ cl'["c1"].pc = "idle"
             /\ lp # None /\ lp[1].expire_at > cl["c1"].ctime) =>
                KeyEntries(db', t[1], t[2]) = KeyEntries(db, t[1], t[2])
      ]_vars

\* C34: when a cleanup pass with timestamp T has collected an entry of a key
\* and a put_with_ttl of that key with expire_at > T has committed after the
\* pass started, no step of the pass changes the primary record, the
\* TtlSingle entry or the TtlExpiration entry that put wrote.
C34_FlushSparesNewRecord ==
    [][\A t \in SharedTargets :
        LET lp == lastPut[t[1]][t[2]]
        IN  (/\ cl["c1"].op = "cleanup_expired"
             /\ cl["c1"].pc \in {"clean_del", "clean_write"}
             /\ cl'["c1"] # cl["c1"]
             /\ \E i \in 1..Len(cl["c1"].buf) :
                    /\ cl["c1"].buf[i].key.schema_name = TypeName(t[1])
                    /\ cl["c1"].buf[i].key.original_key = EncodeKey(t[2])
             /\ lp # None /\ lp[1].expire_at > cl["c1"].ctime
             /\ Single(cl["c1"].pre, t[1], t[2])
                    # Some(TtlSingleValue(lp[1].expire_at, t[1]))) =>
                PutEntriesPresent(db', [schema |-> t[1], key |-> t[2],
                                        value |-> lp[1].value,
                                        expire_at |-> lp[1].expire_at])
      ]_vars

\* C35: at most one task of the scheduler is alive (spawned and not yet out
\* of its loop), and the running flag is set while one is.
C35_AtMostOneTask ==
    /\ Cardinality({i \in 1..Len(sched.tasks) : Alive(sched, i)}) <= 1
    /\ (\E i \in 1..Len(sched.tasks) : Alive(sched, i)) => sched.is_running
\* The scheduler was dropped while its second task was alive, the first one
\* having left its loop.
C35_Witness ==
    /\ sched.pc = "dropped"
    /\ Len(sched.tasks) = 2
    /\ ~ Alive(sched, 1) /\ Alive(sched, 2)
    /\ sched.is_running

\* C36: once the scheduler is dropped, every task of it eventually has left
\* its loop and the running flag is clear.
C36_DropStopsTask ==
    (sched.pc = "dropped") ~>
        (/\ ~ sched.is_running
         /\ \A i \in 1..Len(sched.tasks) : ~ Alive(sched, i))
\* The task of a scheduler that was started and never asked to stop has
\* left its loop after the scheduler was dropped.
C36_Witness ==
    /\ sched.pc = "dropped" /\ sched.ret = "started"
    /\ ~ sched.is_running
    /\ Len(sched.tasks) = 1 /\ sched.tasks[1].pc = "done"

\* C37: no step of a put_with_ttl, get_check_ttl or delete_expired call on
\* a key of one schema changes the primary record, the TtlSingle entry or a
\* TtlExpiration entry of the key with the same bytes of the other schema.
C37_SchemasIndependent ==
    [][(/\ cl'["c1"] # cl["c1"]
        /\ cl'["c1"].op \in {"put_with_ttl", "get_check_ttl", "delete_expired"}) =>
            \A t \in FrameTargets :
                (t[1] # cl'["c1"].schema /\ EncodeKey(t[2]) = EncodeKey(cl'["c1"].key))
                    => KeyEntries(db', t[1], t[2]) = KeyEntries(db, t[1], t[2])
      ]_vars
\* get_check_ttl has removed the expired entries of the key of schema A while
\* the entries of the same-bytes key of schema B are all present.
C37_Witness ==
    /\ Idle("c1") /\ cl["c1"].op = "get_check_ttl" /\ cl["c1"].expired
    /\ cl["c1"].schema = "A" /\ cl["c1"].res = ResNone
    /\ KeyEntries(db, "A", 1) = <<None, None, {}>>
    /\ Primary(db, "B", 1) # None
    /\ Single(db, "B", 1) # None
    /\ ExpKeysOf(db, "B", 1) # {}

\* C38: a get_check_ttl call that finds no TtlSingle record of its key
\* changes no entry and returns what get returns on the store: None when the
\* primary record is absent, Some(v) when it holds the encoding of v.
C38_NoTtlRecordIsPlainGet ==
    [][/\ (Calls("c1", "get_check_ttl")
                /\ Single(db, cl'["c1"].schema, cl'["c1"].key) = None) =>
            /\ db' = db
            /\ cl'["c1"].pc = "gct_get" /\ cl'["c1"].ttl = None
       /\ (/\ cl["c1"].op = "get_check_ttl" /\ cl["c1"].pc = "gct_get"
           /\ cl["c1"].ttl = None /\ Returns("c1")) =>
            LET p == Primary(db, cl["c1"].schema, cl["c1"].key)
            IN  /\ db' = db
                /\ cl'["c1"].res = Get(db, cl["c1"].schema, cl["c1"].key)
                /\ p = None => cl'["c1"].res = ResNone
                /\ \A v \in Values :
                        p = Some(EncodeValue(v)) => cl'["c1"].res = ResSome(v)
      ]_vars
\* get_check_ttl has returned the value of a record stored by a plain put,
\* which has no TtlSingle record.
C38_Witness ==
    /\ Idle("c1") /\ cl["c1"].op = "get_check_ttl" /\ ~ cl["c1"].expired
    /\ cl["c1"].res = ResSome(1)
    /\ Single(db, cl["c1"].schema, cl["c1"].key) = None
    /\ ExpKeysOf(db, cl["c1"].schema, cl["c1"].key) = {}
    /\ puts = 0

\* C39: get_ttl_stats changes no entry and, unless it fails, returns the
\* number of entries of the expiration index and the number of those with
\* expire_timestamp <= the clock, the second at most the first.
C39_StatsCountIndex ==
    [][Calls("c1", "get_ttl_stats") =>
        /\ db' = db
        /\ \/ cl'["c1"].res = ResErr
           \/ /\ cl'["c1"].res =
                    ResStats(Cardinality(DOMAIN db[TtlExpirationCF]),
                             Cardinality({x \in DOMAIN db[TtlExpirationCF] :
                                            x.expire_timestamp <= now}))
              /\ cl'["c1"].res.val[2] <= cl'["c1"].res.val[1]
      ]_vars
\* get_ttl_stats has returned (2, 1): one of two entries expires exactly at
\* the clock.
C39_Witness ==
    /\ Idle("c1") /\ cl["c1"].op = "get_ttl_stats"
    /\ cl["c1"].res = ResStats(2, 1)
    /\ \E x \in DOMAIN db[TtlExpirationCF] : x.expire_timestamp = now

====
